---- MODULE Spec2Model ----
(***************************************************************************)
(* Electrospot backend: the Express route table, the station and booking   *)
(* handlers of server.js over the charging_stations and bookings tables,   *)
(* the trip suggestion evaluator (utils/trip_logic.js), the station search *)
(* handler with its external-discovery fallback (utils/serper.js),         *)
(* registration and login, the authentication middleware, create-booking   *)
(* requests in flight together, and the trip handlers.                     *)
(***************************************************************************)
EXTENDS Integers, Sequences, FiniteSets, Bags, TLC

VARIABLES
    stations,   \* charging_stations: station id -> row
    bookings,   \* bookings table: row i has id i (SERIAL); columns user_id, station_id, status
    req,        \* the request being answered
    resp,       \* the response sent for req
    evalIn,     \* arguments and environment of the last evaluateSmartSuggestions call
    evalOut,    \* its return value and the provider calls it made
    searchIn,   \* query and provider answer of the last station search
    searchOut,  \* the response of the last station search
    discIn,     \* arguments and environment of the last searchExternalStations call
    discOut,    \* how that call ended
    users,      \* users table: row i has id i (SERIAL)
    procs,      \* requests in flight, each between two awaits
    trips,      \* trips table: trip id -> row
    waypoints   \* trip_waypoints table, in insertion order

vars == <<stations, bookings, req, resp, evalIn, evalOut, searchIn, searchOut,
          discIn, discOut, users, procs, trips, waypoints>>

\* the tables and records beyond the booking, evaluator and search models
laterVars == <<discIn, discOut, users, procs, trips, waypoints>>

-----------------------------------------------------------------------------
\* Bounds of the model

\* rows the bookings table may grow to when requests are sent one after
\* another, and when they overlap
MaxBookings == 3
MaxOverlapped == 2

-----------------------------------------------------------------------------
\* Values

\* ids of the users that hold a valid token, and of the rows of charging_stations
Users == {1, 2}
StationIds == {1, 2}
\* station_id of a request body: absent (falsy), a row, or no row
RequestStationIds == {0, 1, 2, 3}

\* Rows of charging_stations the model draws its tables from (the columns the
\* handlers read): whole degrees of latitude and longitude around Kochi.
\* "NULL" is the status an admin update without a status leaves in a row.
StationPool ==
    [i \in 1..7 |->
        CASE i = 1 -> [name |-> "Alpha",   latitude |-> 10, longitude |-> 76, status |-> "available"]
          [] i = 2 -> [name |-> "Bravo",   latitude |-> 10, longitude |-> 76, status |-> "occupied"]
          [] i = 3 -> [name |-> "Charlie", latitude |-> 10, longitude |-> 77, status |-> "available"]
          [] i = 4 -> [name |-> "Delta",   latitude |-> 11, longitude |-> 76, status |-> "NULL"]
          [] i = 5 -> [name |-> "Echo",    latitude |-> 11, longitude |-> 77, status |-> "available"]
          [] i = 6 -> [name |-> "Foxtrot", latitude |-> 10, longitude |-> 76, status |-> "inactive"]
          [] i = 7 -> [name |-> "Golf",    latitude |-> 11, longitude |-> 76, status |-> "maintenance"]]
StationStatus == {"available", "occupied", "maintenance", "inactive"}

\* Path segments that are the decimal text of an integer, and their value
IntText == {"1", "2", "3", "4", "5"}
ToInt(s) ==
    CASE s = "1" -> 1 [] s = "2" -> 2 [] s = "3" -> 3 [] s = "4" -> 4 [] s = "5" -> 5
\* The path segment a client writes for an integer id
ToText(n) == CHOOSE s \in IntText : ToInt(s) = n

-----------------------------------------------------------------------------
\* Express routing: routes are tried in registration order, the first route
\* whose method and path pattern match handles the request.

Routes == <<
    [method |-> "POST",   pattern |-> <<"auth", "register">>,      handler |-> "register", guard |-> "none"],
    [method |-> "POST",   pattern |-> <<"auth", "login">>,         handler |-> "login", guard |-> "none"],
    [method |-> "POST",   pattern |-> <<"auth", "logout">>,        handler |-> "logout", guard |-> "token"],
    [method |-> "GET",    pattern |-> <<"stations">>,              handler |-> "stationList", guard |-> "none"],
    [method |-> "GET",    pattern |-> <<"stations", ":id">>,       handler |-> "stationById", guard |-> "none"],
    [method |-> "GET",    pattern |-> <<"stations", "search">>,    handler |-> "stationSearch", guard |-> "none"],
    [method |-> "POST",   pattern |-> <<"bookings">>,              handler |-> "createBooking", guard |-> "token"],
    [method |-> "GET",    pattern |-> <<"bookings">>,              handler |-> "listBookings", guard |-> "token"],
    [method |-> "DELETE", pattern |-> <<"bookings", ":id">>,       handler |-> "cancelBooking", guard |-> "token"],
    [method |-> "GET",    pattern |-> <<"users", "profile">>,      handler |-> "getProfile", guard |-> "token"],
    [method |-> "PUT",    pattern |-> <<"users", "profile">>,      handler |-> "putProfile", guard |-> "token"],
    [method |-> "GET",    pattern |-> <<"admin", "stats">>,        handler |-> "adminStats", guard |-> "admin"],
    [method |-> "GET",    pattern |-> <<"admin", "users">>,        handler |-> "adminUsers", guard |-> "admin"],
    [method |-> "POST",   pattern |-> <<"admin", "stations">>,     handler |-> "adminCreateStation", guard |-> "admin"],
    [method |-> "PUT",    pattern |-> <<"admin", "stations", ":id">>, handler |-> "adminUpdateStation", guard |-> "admin"],
    [method |-> "DELETE", pattern |-> <<"admin", "stations", ":id">>, handler |-> "adminDeleteStation", guard |-> "admin"],
    [method |-> "GET",    pattern |-> <<"admin", "bookings">>,     handler |-> "adminBookings", guard |-> "admin"],
    [method |-> "POST",   pattern |-> <<"trips", "plan">>,         handler |-> "planTrip", guard |-> "token"],
    [method |-> "POST",   pattern |-> <<"trips", ":id", "update">>, handler |-> "updateTrip", guard |-> "token"],
    [method |-> "GET",    pattern |-> <<"trips", "active">>,       handler |-> "activeTrip", guard |-> "token"],
    [method |-> "GET",    pattern |-> <<"users", "preferences">>,  handler |-> "getPreferences", guard |-> "token"],
    [method |-> "PUT",    pattern |-> <<"users", "preferences">>,  handler |-> "putPreferences", guard |-> "token"],
    [method |-> "GET",    pattern |-> <<"health">>,                handler |-> "health", guard |-> "none"] >>

\* A ':id' pattern segment matches any path segment, a literal one only itself.
SegmentMatches(p, s) == p = ":id" \/ p = s

RouteMatches(route, method, path) ==
    /\ route.method = method
    /\ Len(route.pattern) = Len(path)
    /\ \A i \in 1..Len(path) : SegmentMatches(route.pattern[i], path[i])

\* The route Express runs: the first matching one, else the 404 handler.
NotFoundRoute == [method |-> "", pattern |-> <<>>, handler |-> "notFound", guard |-> "none"]

RouteOf(method, path) ==
    LET hits == {i \in 1..Len(Routes) : RouteMatches(Routes[i], method, path)}
    IN  IF hits = {} THEN NotFoundRoute
        ELSE Routes[CHOOSE i \in hits : \A j \in hits : i <= j]

\* The handler Express runs: the first matching route, else the 404 handler.
Dispatch(method, path) ==
    LET hits == {i \in 1..Len(Routes) : RouteMatches(Routes[i], method, path)}
    IN  IF hits = {} THEN "notFound"
        ELSE Routes[CHOOSE i \in hits : \A j \in hits : i <= j].handler

-----------------------------------------------------------------------------
\* Handlers: each gives the response and the tables after the handler ran.

Reply(status, error, station, st, bk) ==
    [status |-> status, error |-> error, station |-> station,
     stations |-> st, bookings |-> bk]

\* the station field of a response that carries no station row
NoStation == [id |-> 0, name |-> "", latitude |-> 0, longitude |-> 0, status |-> "none"]

\* A row as SELECT * returns it
Row(id, st) ==
    [id |-> id, name |-> st[id].name, latitude |-> st[id].latitude,
     longitude |-> st[id].longitude, status |-> st[id].status]

\* GET /stations/:id.  The id column is an integer: PostgreSQL rejects a
\* parameter that is not the text of an integer and the catch answers 500.
StationByIdHandler(id, st, bk) ==
    IF id \notin IntText
    THEN Reply(500, "Internal server error", NoStation, st, bk)
    ELSE IF ToInt(id) \notin DOMAIN st
    THEN Reply(404, "Station not found", NoStation, st, bk)
    ELSE Reply(200, "", Row(ToInt(id), st), st, bk)

\* !x for the request fields of the model: 0 and the empty text are falsy
\* (an absent field is undefined, which is falsy too).
Falsy(x) == x = 0

\* POST /bookings (after authenticateToken set req.userId), its three
\* queries with no other request in between
CreateBookingHandler(userId, body, st, bk) ==
    IF Falsy(body.station_id) \/ Falsy(body.start_time)
    THEN Reply(400, "Station ID and start time are required", NoStation, st, bk)
    ELSE IF body.station_id \notin DOMAIN st
    THEN Reply(404, "Station not found", NoStation, st, bk)
    ELSE IF st[body.station_id].status # "available"
    THEN Reply(400, "Station is not available", NoStation, st, bk)
    ELSE Reply(201, "", NoStation,
               [st EXCEPT ![body.station_id].status = "occupied"],
               Append(bk, [user_id |-> userId, station_id |-> body.station_id,
                           status |-> "active"]))

\* SELECT * FROM bookings WHERE id = $1 AND user_id = $2.  A row removed by
\* ON DELETE CASCADE keeps its place in the sequence with status "deleted",
\* as the SERIAL id is never given again.
OwnBooking(id, userId, bk) ==
    {i \in 1..Len(bk) : i = id /\ bk[i].user_id = userId /\ bk[i].status # "deleted"}

\* DELETE /bookings/:id (after authenticateToken set req.userId), its three
\* queries with no other request in between
CancelBookingHandler(userId, id, st, bk) ==
    IF OwnBooking(id, userId, bk) = {}
    THEN Reply(404, "Booking not found", NoStation, st, bk)
    ELSE Reply(200, "", NoStation,
               [st EXCEPT ![bk[id].station_id].status = "available"],
               [bk EXCEPT ![id].status = "cancelled"])

-----------------------------------------------------------------------------
\* The booking handlers await their queries one by one: each query runs
\* atomically in the database, and other requests run between two queries
\* of one handler.

\* one request of the handler: where it stands, what its SELECT returned,
\* the id its INSERT returned and the status it answered
Arrived(userId, body) ==
    [status |-> 0, handler |-> "createBooking", error |-> "", userId |-> userId,
     body |-> body, pc |-> "arrived", seen |-> "", bookingId |-> 0]

\* a handler without the availability check of line 414
SelectStepLoose(p, st) ==
    IF Falsy(p.body.station_id) \/ Falsy(p.body.start_time)
    THEN [p EXCEPT !.pc = "done", !.status = 400,
                   !.error = "Station ID and start time are required"]
    ELSE IF p.body.station_id \notin DOMAIN st
    THEN [p EXCEPT !.pc = "done", !.status = 404, !.error = "Station not found"]
    ELSE [p EXCEPT !.pc = "selected", !.seen = st[p.body.station_id].status]

\* Lines 400-417: validation, SELECT id, status FROM charging_stations and
\* the checks on its result
SelectStep(p, st) ==
    IF Falsy(p.body.station_id) \/ Falsy(p.body.start_time)
    THEN [p EXCEPT !.pc = "done", !.status = 400,
                   !.error = "Station ID and start time are required"]
    ELSE IF p.body.station_id \notin DOMAIN st
    THEN [p EXCEPT !.pc = "done", !.status = 404, !.error = "Station not found"]
    ELSE IF st[p.body.station_id].status # "available"
    THEN [p EXCEPT !.pc = "done", !.status = 400, !.error = "Station is not available",
                   !.seen = st[p.body.station_id].status]
    ELSE [p EXCEPT !.pc = "selected", !.seen = "available"]

\* Lines 423-428: INSERT INTO bookings ... RETURNING id
InsertStep(p, bk) ==
    [proc |-> [p EXCEPT !.pc = "inserted", !.bookingId = Len(bk) + 1],
     bookings |-> Append(bk, [user_id |-> p.userId, station_id |-> p.body.station_id,
                              status |-> "active"])]

\* An update that takes the station only if it is still available and
\* withdraws the booking otherwise
UpdateStepIfAvailable(p, st, bk) ==
    IF st[p.body.station_id].status = "available"
    THEN [proc |-> [p EXCEPT !.pc = "done", !.status = 201],
          stations |-> [st EXCEPT ![p.body.station_id].status = "occupied"],
          bookings |-> bk]
    ELSE [proc |-> [p EXCEPT !.pc = "done", !.status = 400],
          stations |-> st,
          bookings |-> [bk EXCEPT ![p.bookingId].status = "cancelled"]]

\* Lines 431-445: UPDATE charging_stations SET status = 'occupied', then 201
UpdateStep(p, st, bk) ==
    [proc |-> [p EXCEPT !.pc = "done", !.status = 201],
     stations |-> [st EXCEPT ![p.body.station_id].status = "occupied"],
     bookings |-> bk]


\* one DELETE /bookings/:id request: where it stands and the row its SELECT
\* returned (bookings.rows[0])
CancelArrived(userId, id) ==
    [status |-> 0, handler |-> "cancelBooking", error |-> "", id |-> id, userId |-> userId,
     pc |-> "arrived", booking |-> [status |-> "", station_id |-> 0, user_id |-> 0]]

\* a SELECT that leaves out the user_id of the request
CancelSelectAnyOwner(p, bk) ==
    IF p.id \notin 1..Len(bk)
    THEN [p EXCEPT !.pc = "done", !.status = 404, !.error = "Booking not found"]
    ELSE [p EXCEPT !.pc = "found", !.booking = bk[p.id]]

\* Lines 483-492: SELECT * FROM bookings WHERE id = $1 AND user_id = $2
CancelSelectStep(p, bk) ==
    IF OwnBooking(p.id, p.userId, bk) = {}
    THEN [p EXCEPT !.pc = "done", !.status = 404, !.error = "Booking not found"]
    ELSE [p EXCEPT !.pc = "found", !.booking = bk[p.id]]

\* Lines 495-498: UPDATE bookings SET status = 'cancelled' WHERE id = $1
CancelMarkStep(p, bk) ==
    [proc |-> [p EXCEPT !.pc = "marked"],
     bookings |-> [i \in 1..Len(bk) |->
                     IF i = p.id /\ bk[i].status # "deleted"
                     THEN [bk[i] EXCEPT !.status = "cancelled"] ELSE bk[i]]]

\* an update that leaves the station as it is
CancelFreeStepSkipped(p, st) ==
    [proc |-> [p EXCEPT !.pc = "done", !.status = 200], stations |-> st]

\* Lines 501-506: UPDATE charging_stations SET status = 'available'
\* WHERE id = booking.station_id, then 200
CancelFreeStep(p, st) ==
    [proc |-> [p EXCEPT !.pc = "done", !.status = 200],
     stations |-> [id \in DOMAIN st |->
                     IF id = p.booking.station_id
                     THEN [st[id] EXCEPT !.status = "available"] ELSE st[id]]]

-----------------------------------------------------------------------------
\* The HTTP API as a state machine: one action per query of a handler.  req
\* is the request that took the step and resp its answer, with status 0
\* while the request is not answered.

NoReq == [method |-> "", path |-> <<>>, handler |-> "", userId |-> 0,
          body |-> [station_id |-> 0, start_time |-> 0]]
NoResp == [status |-> 0, error |-> "", station |-> NoStation]

\* start_time of a request body: absent (falsy) or a timestamp
StartTimes == {0, 600}

\* connections to the server: so many requests are in flight at most
Connections == {1, 2}

EvalIdle == [called |-> FALSE, hour |-> 0, battery |-> 0, nearby |-> <<>>]
EvalOutIdle == [suggestion |-> [type |-> "null"], providerCalls |-> <<>>]
SearchIdle == [done |-> FALSE, status |-> 0, results |-> <<>>, externalCalls |-> 0]
DiscIdle == [done |-> FALSE]

\* nothing in the tables and records of laterVars
LaterIdle ==
    /\ discIn = DiscIdle
    /\ discOut = DiscIdle
    /\ users = <<>>
    /\ procs = <<>>
    /\ trips = <<>>
    /\ waypoints = <<>>

Init ==
    /\ \E status \in [StationIds -> {"available", "maintenance", "inactive"}] :
         stations = [id \in StationIds |-> [StationPool[id] EXCEPT !.status = status[id]]]
    /\ bookings = <<>>
    /\ req = NoReq
    /\ resp = NoResp
    /\ evalIn = EvalIdle
    /\ evalOut = EvalOutIdle
    /\ searchIn = SearchIdle
    /\ searchOut = SearchIdle
    /\ LaterIdle

bookingFrame == <<evalIn, evalOut, searchIn, searchOut, discIn, discOut, users,
                  trips, waypoints>>

Answer(method, path, userId, body, r) ==
    /\ req' = [method |-> method, path |-> path, handler |-> Dispatch(method, path),
               userId |-> userId, body |-> body]
    /\ resp' = [status |-> r.status, error |-> r.error, station |-> r.station]
    /\ stations' = r.stations
    /\ bookings' = r.bookings
    /\ UNCHANGED <<evalIn, evalOut, searchIn, searchOut, laterVars>>

\* GET /stations/<segment>, whatever the query string carries: one query,
\* which runs at any time, also between two queries of another request
GetStation ==
    \E seg \in {"1", "2", "3", "search"} :
        LET path == <<"stations", seg>> IN
        /\ Dispatch("GET", path) = "stationById"
        /\ Answer("GET", path, 0, NoReq.body, StationByIdHandler(seg, stations, bookings))

\* the request of a booking handler as the step of p leaves it
StepOf(method, path, body, p) ==
    [method |-> method, path |-> path, handler |-> p.handler, userId |-> p.userId,
     body |-> body, proc |-> p]

\* the answer of p, none while it is in flight
AnswerOf(p) ==
    IF p.pc = "done" THEN [status |-> p.status, error |-> p.error, station |-> NoStation]
    ELSE NoResp

\* The requests in flight are a bag: the order they arrived in is nothing a
\* handler reads.
InFlight == BagToSet(procs)

\* the requests in flight without q
Without(ps, q) == ps (-) SetToBag({q})

\* the requests in flight with p, unless p is answered
Launched(ps, p) == IF p.pc = "done" THEN ps ELSE ps (+) SetToBag({p})

\* the requests in flight after q stepped to p
Stepped(ps, q, p) == Launched(Without(ps, q), p)

\* a request may arrive while others are in flight (overlap), or only when
\* none is (requests sent one after another)
MayArrive(overlap) ==
    IF overlap THEN BagCardinality(procs) + 1 \in Connections ELSE InFlight = {}

\* bookings rows that exist or are about to be inserted
BookingsDue ==
    LET inserting == {q \in InFlight : q.pc = "selected"}
    IN Len(bookings) + BagCardinality([q \in inserting |-> procs[q]])

\* POST /bookings up to the answer of its SELECT
CreateBookingArrives(overlap) ==
    \E u \in Users, sid \in RequestStationIds, t \in StartTimes :
        LET body == [station_id |-> sid, start_time |-> t] IN
        \E p \in {SelectStep(Arrived(u, body), stations)} :
        /\ Dispatch("POST", <<"bookings">>) = "createBooking"
        /\ MayArrive(overlap)
        /\ BookingsDue < (IF overlap THEN MaxOverlapped ELSE MaxBookings)
        /\ req' = StepOf("POST", <<"bookings">>, body, p)
        /\ resp' = AnswerOf(p)
        /\ procs' = Launched(procs, p)
        /\ UNCHANGED <<stations, bookings, bookingFrame>>

\* POST /bookings of requests that overlap and contend for one station:
\* they name station 1, no station, or a station that does not exist
CreateBookingContends ==
    CreateBookingArrives(TRUE) /\ req'.body.station_id # 2

\* POST /bookings: its INSERT
CreateBookingInserts ==
    \E q \in {k \in InFlight : k.handler = "createBooking" /\ k.pc = "selected"} :
        \E r \in {InsertStep(q, bookings)} :
        /\ req' = StepOf("POST", <<"bookings">>, q.body, r.proc)
        /\ resp' = AnswerOf(r.proc)
        /\ procs' = Stepped(procs, q, r.proc)
        /\ bookings' = r.bookings
        /\ UNCHANGED <<stations, bookingFrame>>

\* POST /bookings: its UPDATE and the answer 201
CreateBookingUpdates ==
    \E q \in {k \in InFlight : k.handler = "createBooking" /\ k.pc = "inserted"} :
        \E r \in {UpdateStep(q, stations, bookings)} :
        /\ req' = StepOf("POST", <<"bookings">>, q.body, r.proc)
        /\ resp' = AnswerOf(r.proc)
        /\ procs' = Stepped(procs, q, r.proc)
        /\ stations' = r.stations
        /\ bookings' = r.bookings
        /\ UNCHANGED bookingFrame

\* DELETE /bookings/:id up to the answer of its SELECT
CancelBookingArrives(overlap) ==
    \E u \in Users, seg \in {"1", "2", "3", "4"} :
        \E p \in {CancelSelectStep(CancelArrived(u, ToInt(seg)), bookings)} :
        /\ Dispatch("DELETE", <<"bookings", seg>>) = "cancelBooking"
        /\ MayArrive(overlap)
        /\ req' = StepOf("DELETE", <<"bookings", seg>>, NoReq.body, p)
        /\ resp' = AnswerOf(p)
        /\ procs' = Launched(procs, p)
        /\ UNCHANGED <<stations, bookings, bookingFrame>>

\* DELETE /bookings/:id: the UPDATE of the booking
CancelBookingMarks ==
    \E q \in {k \in InFlight : k.handler = "cancelBooking" /\ k.pc = "found"} :
        \E r \in {CancelMarkStep(q, bookings)} :
        /\ req' = StepOf("DELETE", <<"bookings", ToText(q.id)>>, NoReq.body, r.proc)
        /\ resp' = AnswerOf(r.proc)
        /\ procs' = Stepped(procs, q, r.proc)
        /\ bookings' = r.bookings
        /\ UNCHANGED <<stations, bookingFrame>>

\* DELETE /bookings/:id: the UPDATE of the station and the answer 200
CancelBookingFrees ==
    \E q \in {k \in InFlight : k.handler = "cancelBooking" /\ k.pc = "marked"} :
        \E r \in {CancelFreeStep(q, stations)} :
        /\ req' = StepOf("DELETE", <<"bookings", ToText(q.id)>>, NoReq.body, r.proc)
        /\ resp' = AnswerOf(r.proc)
        /\ procs' = Stepped(procs, q, r.proc)
        /\ stations' = r.stations
        /\ UNCHANGED <<bookings, bookingFrame>>

\* the queries of requests in flight
BookingSteps ==
    \/ CreateBookingInserts
    \/ CreateBookingUpdates
    \/ CancelBookingMarks
    \/ CancelBookingFrees

Next ==
    \/ CreateBookingArrives(TRUE)
    \/ CancelBookingArrives(TRUE)
    \/ BookingSteps

Spec == Init /\ [][Next]_vars

\* The same API with each booking request sent after the answer to the one
\* before, and the stations read at any time
NextSerial ==
    \/ GetStation
    \/ CreateBookingArrives(FALSE)
    \/ CancelBookingArrives(FALSE)
    \/ BookingSteps

SpecSerial == Init /\ [][NextSerial]_vars

-----------------------------------------------------------------------------
\* Suggestion evaluator (utils/trip_logic.js)

\* longest list searchExternalStations answers with
MaxNearby == 2

batteryThreshold == 60
FastChargerKw == 30
suggestedDuration == 40
SuggestionRadius == 5

Hours == 0..23
Batteries == {0, 40, 59, 60, 61, 80}

\* Stations the discovery call may answer with, in the station shape
NearbyPool ==
    { [id |-> "ext_1", name |-> "Alpha", power_output_kw |-> 50],
      [id |-> "ext_2", name |-> "Bravo", power_output_kw |-> 30],
      [id |-> "ext_3", name |-> "Slow",  power_output_kw |-> 29],
      [id |-> "ext_4", name |-> "Home",  power_output_kw |-> 7] }

SeqsUpTo(S, n) == UNION {[1..k -> S] : k \in 0..n}

\* mealType, "" standing for JavaScript null
MealTypeLongLunch(currentHour) ==
    IF currentHour >= 8 /\ currentHour <= 9 THEN "breakfast"
    ELSE IF currentHour >= 12 /\ currentHour <= 15 THEN "lunch"
    ELSE IF currentHour >= 19 /\ currentHour <= 21 THEN "dinner"
    ELSE ""

MealType(currentHour) ==
    IF currentHour >= 8 /\ currentHour <= 9 THEN "breakfast"
    ELSE IF currentHour >= 12 /\ currentHour <= 14 THEN "lunch"
    ELSE IF currentHour >= 19 /\ currentHour <= 21 THEN "dinner"
    ELSE ""

BatteryHighStrict(currentBattery) == currentBattery > batteryThreshold

\* currentBattery >= batteryThreshold
BatteryHigh(currentBattery) == currentBattery >= batteryThreshold

FastChargersUnfiltered(nearbyStations) == nearbyStations

\* a filter that keeps chargers above 50 kW only
FastChargersAbove50(nearbyStations) ==
    SelectSeq(nearbyStations, LAMBDA s : s.power_output_kw > 50)

\* nearbyStations.filter(s => s.power_output_kw >= 30)
FastChargers(nearbyStations) ==
    SelectSeq(nearbyStations, LAMBDA s : s.power_output_kw >= FastChargerKw)

BestStationLast(fastChargers) == fastChargers[Len(fastChargers)]

\* fastChargers[0]
BestStation(fastChargers) == fastChargers[1]

\* The template literal of the message, as its pieces.  It ends in a space
\* and the two characters U+2615 (hot beverage) and U+26A1 (high voltage),
\* written here by their code points.
Message(mealType, station, duration) ==
    <<"It's ", mealType, " time! There's a fast charger nearby at ", station.name,
      ". If you charge here for ", duration,
      " mins, you can reach your destination without another stop. ",
      "U+2615", "U+26A1">>

NullSuggestion == [type |-> "null"]

\* an evaluator that queries the provider before it looks at the hour and
\* the battery
EvaluateQueryFirst(currentHour, currentBattery, provider) ==
    IF MealType(currentHour) = "" \/ BatteryHigh(currentBattery)
        \/ Len(FastChargers(provider)) = 0
    THEN [suggestion |-> NullSuggestion, providerCalls |-> <<SuggestionRadius>>]
    ELSE [suggestion |->
            [type |-> "meal_stop",
             mealType |-> MealType(currentHour),
             station |-> BestStation(FastChargers(provider)),
             message |-> Message(MealType(currentHour),
                                 BestStation(FastChargers(provider)),
                                 suggestedDuration),
             chargeDuration |-> suggestedDuration],
          providerCalls |-> <<SuggestionRadius>>]

\* evaluateSmartSuggestions at wall-clock hour currentHour, where `provider` is
\* what searchExternalStations answers if it is called.  The result carries the
\* returned value and the discovery calls made (their radius argument).
EvaluateSmartSuggestions(currentHour, currentBattery, provider) ==
    IF MealType(currentHour) = ""
    THEN [suggestion |-> NullSuggestion, providerCalls |-> <<>>]
    ELSE IF BatteryHigh(currentBattery)
    THEN [suggestion |-> NullSuggestion, providerCalls |-> <<>>]
    ELSE IF Len(FastChargers(provider)) = 0
    THEN [suggestion |-> NullSuggestion, providerCalls |-> <<SuggestionRadius>>]
    ELSE [suggestion |->
            [type |-> "meal_stop",
             mealType |-> MealType(currentHour),
             station |-> BestStation(FastChargers(provider)),
             message |-> Message(MealType(currentHour),
                                 BestStation(FastChargers(provider)),
                                 suggestedDuration),
             chargeDuration |-> suggestedDuration],
          providerCalls |-> <<SuggestionRadius>>]

InitEval ==
    /\ stations = [id \in StationIds |-> StationPool[id]]
    /\ bookings = <<>>
    /\ req = NoReq
    /\ resp = NoResp
    /\ evalIn \in [called : {FALSE}, hour : Hours, battery : Batteries,
                    nearby : SeqsUpTo(NearbyPool, MaxNearby)]
    /\ evalOut = EvalOutIdle
    /\ searchIn = SearchIdle
    /\ searchOut = SearchIdle
    /\ LaterIdle

\* One call of evaluateSmartSuggestions: the clock reads evalIn.hour and the
\* discovery call, if made, answers evalIn.nearby.
Evaluate ==
    /\ ~evalIn.called
    /\ evalIn' = [evalIn EXCEPT !.called = TRUE]
    /\ evalOut' = EvaluateSmartSuggestions(evalIn.hour, evalIn.battery, evalIn.nearby)
    /\ UNCHANGED <<stations, bookings, req, resp, searchIn, searchOut, laterVars>>

NextEval == Evaluate

SpecEval == InitEval /\ [][NextEval]_vars

-----------------------------------------------------------------------------
\* Claims on the suggestion evaluator (specification SpecEval)

MealHours == {8, 9, 12, 13, 14, 19, 20, 21}
HasFast(nearby) == \E i \in 1..Len(nearby) : nearby[i].power_output_kw >= 30

\* C6: at every hour outside {8,9,12,13,14,19,20,21} the evaluator returns
\* null, whatever the battery and the provider's answer.
C6_NullOutsideMealWindows ==
    (evalIn.called /\ evalIn.hour \notin MealHours) => evalOut.suggestion = NullSuggestion

C6_Witness ==
    /\ evalIn.called
    /\ evalIn.hour = 15
    /\ evalIn.battery = 40
    /\ HasFast(evalIn.nearby)
    /\ evalOut.suggestion = NullSuggestion

\* C7: for every battery value >= 60 the evaluator returns null, also inside
\* a meal window with fast chargers on offer.
C7_NullOnHighBattery ==
    (evalIn.called /\ evalIn.battery >= 60) => evalOut.suggestion = NullSuggestion

C7_Witness ==
    /\ evalIn.called
    /\ evalIn.hour \in MealHours
    /\ evalIn.battery = 60
    /\ HasFast(evalIn.nearby)
    /\ evalOut.suggestion = NullSuggestion

\* C8: inside a meal window with battery below 60 and at least one station of
\* power >= 30 in the provider's answer, the evaluator returns a suggestion
\* with chargeDuration 40 whose station is the first such station in provider
\* order.
C8_FirstFastCharger ==
    (evalIn.called /\ evalIn.hour \in MealHours /\ evalIn.battery < 60
        /\ HasFast(evalIn.nearby))
    => /\ evalOut.suggestion # NullSuggestion
       /\ evalOut.suggestion.chargeDuration = 40
       /\ \E i \in 1..Len(evalIn.nearby) :
            /\ evalIn.nearby[i].power_output_kw >= 30
            /\ \A j \in 1..(i - 1) : evalIn.nearby[j].power_output_kw < 30
            /\ evalOut.suggestion.station = evalIn.nearby[i]

C8_Witness ==
    /\ evalIn.called
    /\ evalIn.hour = 13
    /\ evalIn.battery = 40
    /\ Len(evalIn.nearby) = 2
    /\ evalIn.nearby[1].power_output_kw < 30
    /\ evalIn.nearby[2].power_output_kw >= 30
    /\ evalOut.suggestion # NullSuggestion
    /\ evalOut.suggestion.station = evalIn.nearby[2]
    /\ evalOut.suggestion.chargeDuration = 40

\* C22: the provider is not queried when the hour is outside every meal
\* window or the battery is 60 or more, and it is queried at most once per
\* evaluation (the guards come in the order meal window, battery, provider).
C22_GuardsBeforeProvider ==
    evalIn.called
    => /\ evalIn.hour \notin MealHours => evalOut.providerCalls = <<>>
       /\ evalIn.battery >= 60 => evalOut.providerCalls = <<>>
       /\ Len(evalOut.providerCalls) <= 1
       /\ (evalIn.hour \in MealHours /\ evalIn.battery < 60)
            => Len(evalOut.providerCalls) = 1

C22_Witness ==
    /\ evalIn.called
    /\ evalIn.hour = 20
    /\ evalIn.battery = 61
    /\ Len(evalIn.nearby) = 2
    /\ evalOut.providerCalls = <<>>
    /\ evalOut.suggestion = NullSuggestion

\* C9: inside a meal window with battery below 60, the evaluator returns null
\* when the provider's answer is empty or holds only stations of power < 30.
C9_NullWithoutFastCharger ==
    (evalIn.called /\ evalIn.hour \in MealHours /\ evalIn.battery < 60
        /\ ~HasFast(evalIn.nearby))
    => evalOut.suggestion = NullSuggestion

C9_Witness ==
    /\ evalIn.called
    /\ evalIn.hour \in MealHours
    /\ evalIn.battery = 40
    /\ Len(evalIn.nearby) > 0
    /\ ~HasFast(evalIn.nearby)
    /\ evalOut.suggestion = NullSuggestion
    /\ evalOut.providerCalls = <<5>>

-----------------------------------------------------------------------------
\* External discovery (utils/serper.js) and station search (GET /stations/search)

\* longest list of places the provider answers with
MaxPlaces == 2
MaxUsers == 2
MaxWaypoints == 2

DefaultRadius == 10
SearchLimit == 50
FallbackBelow == 5
MinPhoneDigits == 10
ExternalPowerKw == 50

\* Places as the provider reports them
PlacePool ==
    { [cid |-> "11", title |-> "ALPHA",  latitude |-> 10, longitude |-> 76],
      [cid |-> "12", title |-> "Zulu",   latitude |-> 11, longitude |-> 77],
      [cid |-> "13", title |-> "",       latitude |-> 10, longitude |-> 76],
      [cid |-> "14", title |-> "#42",    latitude |-> 10, longitude |-> 77] }

\* JSON values that are not text: "#42" stands for the number 42 and "#7"
\* for the number 7, which are truthy and are not strings.
NonText == {"#42", "#7"}
IsText(name) == name \notin NonText

\* String.prototype.toLowerCase on the names of the model
ToLowerCase(name) ==
    CASE name = "Alpha" -> "alpha"     [] name = "ALPHA" -> "alpha"
      [] name = "Bravo" -> "bravo"     [] name = "Charlie" -> "charlie"
      [] name = "Delta" -> "delta"     [] name = "Echo" -> "echo"
      [] name = "Foxtrot" -> "foxtrot" [] name = "Golf" -> "golf"
      [] name = "Nomad" -> "nomad"     [] name = "Zulu" -> "zulu"
      [] name = "Unknown Station" -> "unknown station"

\* a mapping that leaves the ext_ prefix and the is_external mark out
MapPlacePlain(place) ==
    [id |-> <<place.cid>>,
     name |-> IF place.title = "" THEN "Unknown Station" ELSE place.title,
     latitude |-> place.latitude,
     longitude |-> place.longitude,
     status |-> "available",
     connector_type |-> "CCS2",
     power_output_kw |-> ExternalPowerKw,
     price_per_kwh |-> 0,
     is_external |-> FALSE]

\* Math.random().toString(36).substr(2, 9): values one evaluation can give
RandomDraws == {"k3j9x0a1b", "p07qzt5mw"}

\* Places the provider reports without a cid; `random` is what Math.random
\* gives when the place is mapped in the call at hand
NoCidPlaces ==
    { [cid |-> "", title |-> "Nomad", latitude |-> 10, longitude |-> 77, random |-> r]
        : r \in RandomDraws }

\* place.cid || Math.random().toString(36).substr(2, 9)
PlaceKey(place) == IF place.cid = "" THEN place.random ELSE place.cid

\* One provider place in the station shape
MapPlace(place) ==
    [id |-> <<"ext_", PlaceKey(place)>>,
     name |-> IF place.title = "" THEN "Unknown Station" ELSE place.title,
     latitude |-> place.latitude,
     longitude |-> place.longitude,
     status |-> "available",
     connector_type |-> "CCS2",
     power_output_kw |-> ExternalPowerKw,
     price_per_kwh |-> 0,
     is_external |-> TRUE]

\* How a call of searchExternalStations ends
Returned(contacted, list) == [threw |-> FALSE, contacted |-> contacted, stations |-> list]
Threw(contacted) == [threw |-> TRUE, contacted |-> contacted, stations |-> <<>>]

\* searchExternalStations without the catch of lines 59-62
SearchExternalStationsUncaught(apiKey, provider) ==
    IF ~apiKey THEN Returned(FALSE, <<>>)
    ELSE IF provider.fails \/ provider.malformed THEN Threw(TRUE)
    ELSE Returned(TRUE, [i \in 1..Len(provider.places) |-> MapPlace(provider.places[i])])

\* One call of searchExternalStations: apiKey tells whether SERPER_API_KEY is
\* set; provider is the outcome of the HTTP call: a failure (network error,
\* non-2xx status), a body that cannot be mapped (data null, or places not
\* an array of objects), or the places.  Both kinds of exception are raised
\* inside the try and caught at line 59.
SearchExternalStationsCall(apiKey, provider) ==
    IF ~apiKey THEN Returned(FALSE, <<>>)
    ELSE IF provider.fails \/ provider.malformed THEN Returned(TRUE, <<>>)
    ELSE Returned(TRUE, [i \in 1..Len(provider.places) |-> MapPlace(provider.places[i])])

\* the value searchExternalStations resolves to
SearchExternalStations(apiKey, provider) ==
    SearchExternalStationsCall(apiKey, provider).stations

\* 6371 * acos(cos(radians(a)) * cos(radians(lat)) * cos(radians(lng) - radians(b))
\*            + sin(radians(a)) * sin(radians(lat))),
\* evaluated in double precision on the whole-degree points of the model and
\* rounded to metres.
Distance(a, b, lat, lng) ==
    LET dlng == IF lng >= b THEN lng - b ELSE b - lng IN
    CASE a = lat /\ dlng = 0 -> 0
      [] a = 10 /\ lat = 10 /\ dlng = 1 -> 109506
      [] a = 11 /\ lat = 11 /\ dlng = 1 -> 109152
      [] a # lat /\ dlng = 0 -> 111195
      [] a # lat /\ dlng = 1 -> 155941

\* An optional query parameter is <<>> when absent and <<v>> when given.
Given(param) == param # <<>>

\* radius = 10 by default, then parseFloat(radius)
Radius(query) == IF Given(query.radius) THEN query.radius[1] ELSE DefaultRadius

RowDistance(query, row) ==
    Distance(query.latitude[1], query.longitude[1], row.latitude, row.longitude)

WithinRadiusAlways(query, row) == TRUE

\* WHERE distance <= $3 (distance in metres, the radius in km)
WithinRadius(query, row) == RowDistance(query, row) <= Radius(query) * 1000

\* The ids the SQL query selects: status != 'inactive', which is not true
\* of a row whose status is NULL, and within the radius
Selected(query, st) ==
    {id \in DOMAIN st : /\ st[id].status # "NULL"
                        /\ st[id].status # "inactive"
                        /\ WithinRadius(query, st[id])}

\* ORDER BY distance: every ascending order of the selected rows (rows at
\* equal distance come in an order SQL does not fix)
RECURSIVE Ascending(_, _, _)
Ascending(query, st, ids) ==
    IF ids = {} THEN {<<>>}
    ELSE LET nearest == {id \in ids : \A o \in ids :
                            RowDistance(query, st[id]) <= RowDistance(query, st[o])}
         IN  UNION { { <<id>> \o rest : rest \in Ascending(query, st, ids \ {id}) }
                     : id \in nearest }

\* LIMIT 50
Limit(seq) == IF Len(seq) <= SearchLimit THEN seq ELSE SubSeq(seq, 1, SearchLimit)

\* A row of the query's result: the station row and its computed distance
ResultRow(query, st, id) ==
    [id |-> id, name |-> st[id].name, latitude |-> st[id].latitude,
     longitude |-> st[id].longitude, status |-> st[id].status,
     is_external |-> FALSE, distance |-> RowDistance(query, st[id])]

\* The results the SQL query may return
PrimaryResults(query, st) ==
    { Limit([i \in 1..Len(order) |-> ResultRow(query, st, order[i])])
        : order \in Ascending(query, st, Selected(query, st)) }

UniqueExternalCaseSensitive(results, externalStations) ==
    LET dbNames == {results[i].name : i \in 1..Len(results)} IN
    SelectSeq(externalStations, LAMBDA s : s.name \notin dbNames)

\* externalStations.filter(s => !dbNames.has(s.name.toLowerCase()))
UniqueExternal(results, externalStations) ==
    LET dbNames == {ToLowerCase(results[i].name) : i \in 1..Len(results)} IN
    SelectSeq(externalStations, LAMBDA s : ToLowerCase(s.name) \notin dbNames)

\* s.name.toLowerCase() throws a TypeError on a name that is not text
MergeThrows(results, externalStations) ==
    \E i \in 1..Len(externalStations) : ~IsText(externalStations[i].name)

\* Lines 367-381 without the inner try/catch: a throwing merge reaches the
\* outer catch.
FallbackUncaught(results, externalStations) ==
    IF MergeThrows(results, externalStations)
    THEN [status |-> 500, results |-> <<>>, externalCalls |-> 1]
    ELSE [status |-> 200,
          results |-> results \o UniqueExternal(results, externalStations),
          externalCalls |-> 1]

\* Lines 367-381: the fallback, given what searchExternalStations returned.
\* A throw inside the try leaves results as the query returned them.
Fallback(results, externalStations) ==
    IF MergeThrows(results, externalStations)
    THEN [status |-> 200, results |-> results, externalCalls |-> 1]
    ELSE [status |-> 200,
          results |-> results \o UniqueExternal(results, externalStations),
          externalCalls |-> 1]

\* The handler of app.get('/stations/search') given the query's result:
\* the response, and how often external discovery was invoked.
StationSearchHandler(query, results, apiKey, provider) ==
    IF ~Given(query.latitude) \/ ~Given(query.longitude)
    THEN [status |-> 400, results |-> <<>>, externalCalls |-> 0]
    ELSE IF Len(results) < FallbackBelow
    THEN Fallback(results, SearchExternalStations(apiKey, provider))
    ELSE [status |-> 200, results |-> results, externalCalls |-> 0]

Latitudes == {<<>>, <<10>>}
Longitudes == {<<>>, <<76>>, <<77>>}
Radii == {<<>>, <<120>>, <<200>>}

Providers ==
    {[fails |-> TRUE, malformed |-> FALSE, places |-> <<>>],
     [fails |-> FALSE, malformed |-> TRUE, places |-> <<>>]}
        \cup [fails : {FALSE}, malformed : {FALSE}, places : SeqsUpTo(PlacePool, MaxPlaces)]

\* The station table, the query, the environment and the provider's outcome
InitSearch ==
    /\ \E ids \in SUBSET (1..7) : stations = [id \in ids |-> StationPool[id]]
    /\ bookings = <<>>
    /\ req = NoReq
    /\ resp = NoResp
    /\ evalIn = EvalIdle
    /\ evalOut = EvalOutIdle
    /\ searchIn \in [done : {FALSE},
                     query : [latitude : Latitudes, longitude : Longitudes, radius : Radii],
                     apiKey : BOOLEAN, provider : Providers]
    /\ searchOut = SearchIdle
    /\ LaterIdle

\* The search handler run on searchIn
Search ==
    /\ ~searchIn.done
    /\ searchIn' = [searchIn EXCEPT !.done = TRUE]
    /\ \E results \in (IF Given(searchIn.query.latitude) /\ Given(searchIn.query.longitude)
                       THEN PrimaryResults(searchIn.query, stations) ELSE {<<>>}) :
         searchOut' = StationSearchHandler(searchIn.query, results,
                                           searchIn.apiKey, searchIn.provider)
    /\ UNCHANGED <<stations, bookings, req, resp, evalIn, evalOut, laterVars>>

NextSearch == Search

SpecSearch == InitSearch /\ [][NextSearch]_vars

-----------------------------------------------------------------------------
\* searchExternalStations called on its own

\* the radius argument: omitted (default 10) or given
DiscoveryRadii == {<<>>, <<5>>, <<10>>}

\* provider outcomes, also with places that carry no cid
DiscoveryProviders ==
    Providers \cup [fails : {FALSE}, malformed : {FALSE},
                    places : SeqsUpTo(PlacePool \cup NoCidPlaces, MaxPlaces)]

\* the same provider response met by a later call, in which Math.random
\* gives `redraw`
Redrawn(provider, redraw) ==
    [provider EXCEPT !.places =
        [i \in 1..Len(provider.places) |->
            IF provider.places[i].cid = ""
            THEN [provider.places[i] EXCEPT !.random = redraw]
            ELSE provider.places[i]]]

InitDiscovery ==
    /\ stations = [id \in StationIds |-> StationPool[id]]
    /\ bookings = <<>>
    /\ req = NoReq
    /\ resp = NoResp
    /\ evalIn = EvalIdle
    /\ evalOut = EvalOutIdle
    /\ searchIn = SearchIdle
    /\ searchOut = SearchIdle
    /\ discIn \in [done : {FALSE}, again : {FALSE}, latitude : {10, 11}, longitude : {76, 77},
                   radius : DiscoveryRadii, apiKey : BOOLEAN,
                   provider : DiscoveryProviders, redraw : RandomDraws]
    /\ discOut = DiscIdle
    /\ users = <<>>
    /\ procs = <<>>
    /\ trips = <<>>
    /\ waypoints = <<>>

\* one call searchExternalStations(latitude, longitude, radius)
Discover ==
    /\ ~discIn.done
    /\ discIn' = [discIn EXCEPT !.done = TRUE]
    /\ discOut' = SearchExternalStationsCall(discIn.apiKey, discIn.provider)
    /\ UNCHANGED <<stations, bookings, req, resp, evalIn, evalOut, searchIn, searchOut,
                   users, procs, trips, waypoints>>

\* a second call with the same arguments, answered by the same response
DiscoverAgain ==
    /\ discIn.done
    /\ ~discIn.again
    /\ discIn' = [discIn EXCEPT !.again = TRUE]
    /\ discOut' = [threw |-> discOut.threw, contacted |-> discOut.contacted,
                   stations |-> discOut.stations,
                   second |-> SearchExternalStationsCall(
                                  discIn.apiKey, Redrawn(discIn.provider, discIn.redraw))]
    /\ UNCHANGED <<stations, bookings, req, resp, evalIn, evalOut, searchIn, searchOut,
                   users, procs, trips, waypoints>>

NextDiscovery == Discover \/ DiscoverAgain

SpecDiscovery == InitDiscovery /\ [][NextDiscovery]_vars

-----------------------------------------------------------------------------
\* Claims on external discovery (specification SpecDiscovery)

\* C13: searchExternalStations never throws or rejects; without an API key it
\* returns an empty list and does not contact the provider; when the provider
\* call fails or its response cannot be mapped it returns an empty list.
C13_DiscoveryNeverThrows ==
    discIn.done
    => /\ ~discOut.threw
       /\ ~discIn.apiKey => (discOut.stations = <<>> /\ ~discOut.contacted)
       /\ (discIn.provider.fails \/ discIn.provider.malformed) => discOut.stations = <<>>

C13_Witness ==
    /\ discIn.done
    /\ discIn.apiKey
    /\ discIn.provider.malformed
    /\ discOut.contacted
    /\ discOut.stations = <<>>

\* C21 (as claimed): two calls with the same arguments and the same provider
\* response return equal station lists, ids included, also for places
\* without a cid.
C21_DiscoveryIdempotent ==
    discIn.again => discOut.second.stations = discOut.stations

-----------------------------------------------------------------------------
\* Claims on station search (specification SpecSearch)

\* distance of a returned entry from the query point, by the search's formula
EntryDistance(entry) ==
    Distance(searchIn.query.latitude[1], searchIn.query.longitude[1],
             entry.latitude, entry.longitude)

\* C10 (as claimed): the returned list is non-decreasing in distance from the
\* query point and no returned station is farther than the radius.
C10_ListSortedWithinRadius ==
    (searchIn.done /\ searchOut.status = 200)
    => LET out == searchOut.results IN
       /\ \A i, j \in 1..Len(out) : i < j => EntryDistance(out[i]) <= EntryDistance(out[j])
       /\ \A i \in 1..Len(out) : EntryDistance(out[i]) <= Radius(searchIn.query) * 1000

\* C10 (amended): the persisted entries of the returned list come first, are
\* the non-inactive rows within the radius, non-decreasing in computed
\* distance; the appended external entries carry no computed distance.
C10_PersistedSortedWithinRadius ==
    (searchIn.done /\ searchOut.status = 200)
    => LET out == searchOut.results
           persisted == {i \in 1..Len(out) : ~out[i].is_external} IN
       /\ \A i \in persisted : \A j \in 1..Len(out) : j < i => j \in persisted
       /\ \A i, j \in persisted :
            i < j => /\ out[i].distance <= out[j].distance
                     /\ EntryDistance(out[i]) <= EntryDistance(out[j])
       /\ \A i \in persisted :
            /\ out[i].distance = EntryDistance(out[i])
            /\ out[i].distance <= Radius(searchIn.query) * 1000
            /\ out[i].id \in DOMAIN stations
            /\ stations[out[i].id].status # "inactive"

C10_Witness ==
    /\ searchIn.done
    /\ searchOut.status = 200
    /\ Len(searchOut.results) >= 4
    /\ ~searchOut.results[1].is_external
    /\ ~searchOut.results[3].is_external
    /\ searchOut.results[1].distance < searchOut.results[3].distance
    /\ searchOut.results[4].is_external
    /\ \E id \in DOMAIN stations :
         /\ stations[id].status # "inactive"
         /\ RowDistance(searchIn.query, stations[id]) > Radius(searchIn.query) * 1000

\* rows of the table the search query selects, written out
Eligible ==
    {id \in DOMAIN stations :
        /\ stations[id].status \notin {"inactive", "NULL"}
        /\ EntryDistance(stations[id]) <= Radius(searchIn.query) * 1000}

SameNameIgnoringCase(a, b) == IsText(a) /\ IsText(b) /\ ToLowerCase(a) = ToLowerCase(b)

\* C11: external discovery is invoked if and only if the primary result has
\* fewer than 5 entries, and no external entry of the merged result has the
\* name, ignoring case, of a primary entry.
C11_FallbackIffFewAndNoDuplicateNames ==
    (searchIn.done /\ searchOut.status = 200)
    => LET out == searchOut.results
           primary == {i \in 1..Len(out) : ~out[i].is_external}
           external == {i \in 1..Len(out) : out[i].is_external} IN
       /\ Cardinality(primary) = Cardinality(Eligible)
       /\ (searchOut.externalCalls = 1) <=> (Cardinality(Eligible) < 5)
       /\ searchOut.externalCalls \in {0, 1}
       /\ \A e \in external : \A q \in primary :
            ~SameNameIgnoringCase(out[e].name, out[q].name)

\* five persisted rows match (of a table that also holds a row without
\* status and an inactive one): discovery is not invoked, though a key is
\* set and the provider would have answered with places
C11_Witness ==
    /\ searchIn.done
    /\ searchOut.status = 200
    /\ searchOut.externalCalls = 0
    /\ DOMAIN stations = 1..7
    /\ Cardinality(Eligible) = 5
    /\ Len(searchOut.results) = 5
    /\ \A i \in 1..5 : ~searchOut.results[i].is_external
    /\ searchIn.apiKey
    /\ ~searchIn.provider.fails
    /\ ~searchIn.provider.malformed
    /\ Len(searchIn.provider.places) >= 1

\* fewer than five match: discovery is invoked, and of its places "ALPHA"
\* is dropped against the persisted "Alpha" while "Zulu" is appended
C11_MergedWithoutDuplicate ==
    /\ searchIn.done
    /\ searchOut.status = 200
    /\ searchOut.externalCalls = 1
    /\ searchIn.apiKey
    /\ \E i \in 1..Len(searchIn.provider.places) : searchIn.provider.places[i].title = "ALPHA"
    /\ \E i \in 1..Len(searchOut.results) :
         ~searchOut.results[i].is_external /\ searchOut.results[i].name = "Alpha"
    /\ \E i \in 1..Len(searchOut.results) :
         searchOut.results[i].is_external /\ searchOut.results[i].name = "Zulu"

\* the provider call or the merge fails during the fallback
FallbackFails ==
    /\ Cardinality(Eligible) < 5
    /\ searchIn.apiKey
    /\ \/ searchIn.provider.fails
       \/ \E i \in 1..Len(searchIn.provider.places) :
            ~IsText(searchIn.provider.places[i].title)

\* C12: when the provider call or the merge fails during the fallback, the
\* search is answered 200 with exactly the persisted results in distance
\* order, never 500.
C12_FallbackFailureKeepsPrimary ==
    (searchIn.done /\ Given(searchIn.query.latitude) /\ Given(searchIn.query.longitude)
        /\ FallbackFails)
    => LET out == searchOut.results IN
       /\ searchOut.status = 200
       /\ \A i \in 1..Len(out) : ~out[i].is_external
       /\ {out[i].id : i \in 1..Len(out)} = Eligible
       /\ Len(out) = Cardinality(Eligible)
       /\ \A i, j \in 1..Len(out) : i < j => out[i].distance <= out[j].distance

C12_Witness ==
    /\ searchIn.done
    /\ searchOut.status = 200
    /\ searchIn.apiKey
    /\ ~searchIn.provider.fails
    /\ Len(searchIn.provider.places) = 2
    /\ IsText(searchIn.provider.places[1].title)
    /\ ~IsText(searchIn.provider.places[2].title)
    /\ Len(searchOut.results) = 2
    /\ searchOut.results[1].distance < searchOut.results[2].distance

-----------------------------------------------------------------------------
\* Registration and login over the users table

Names == {"", "Ann"}
Emails == {"", "a@x", "b@x"}
\* password of a request body: absent, text, or the JSON number 7
Passwords == {"", "pw1", "pw2", "#7"}
RegisterPasswords == {"", "pw1", "#7"}

DigitChars == {"0", "1", "2", "3", "4", "5", "6", "7", "8", "9"}
Whitespace == {" "}

\* phone of a request body, character by character; <<>> is absent or ''
Phones ==
    { <<>>,
      <<" ", " ", " ">>,
      <<"1", "2", "3", "4", "5">>,
      <<"+", "1", "2", "3", "4", "5", "6", "7", "8", "9">>,
      <<"1", "2", "3", "-", "4", "5", "6", "-", "7", "8", "9">>,
      <<"1", "2", "3", "4", "5", "6", "7", "8", "9", "0">>,
      <<" ", "+", "9", "1", " ", "9", "8", "7", "6", "5", "-",
        "4", "3", "2", "1", "0", " ">> }

RECURSIVE TrimStart(_)
TrimStart(text) ==
    IF text # <<>> /\ Head(text) \in Whitespace THEN TrimStart(Tail(text)) ELSE text

RECURSIVE TrimEnd(_)
TrimEnd(text) ==
    IF text # <<>> /\ text[Len(text)] \in Whitespace
    THEN TrimEnd(SubSeq(text, 1, Len(text) - 1)) ELSE text

\* String(phone).trim()
Trim(text) == TrimEnd(TrimStart(text))

\* phoneTrimmed.replace(/[^\d+]/g, '') alone
DigitsOnlyKeepPlus(text) == SelectSeq(text, LAMBDA c : c \in DigitChars \cup {"+"})

\* phoneTrimmed.replace(/[^\d+]/g, '').replace(/\+/g, '')
DigitsOnly(text) ==
    SelectSeq(SelectSeq(text, LAMBDA c : c \in DigitChars \cup {"+"}),
              LAMBDA c : c # "+")

\* bcrypt.hash(password, 10) of a text password
Hash(password) == <<"bcrypt", password>>

\* bcrypt.compare(password, hash) of a text password
Compare(password, hash) == hash = Hash(password)

\* payload of jwt.sign; a response without token carries NoToken
NoToken == [userId |-> 0, email |-> "", isAdmin |-> FALSE]
Sign(userId, email, isAdmin) == [userId |-> userId, email |-> email, isAdmin |-> isAdmin]

\* An id the sequence of users.id gave to an INSERT that failed: the value
\* is spent and no row carries it.  No request looks up the email ''.
SpentId ==
    [name |-> "", email |-> "", password |-> <<>>, phone |-> <<>>, is_admin |-> FALSE]

\* the ids of the rows of users
UserIds(us) == {i \in 1..Len(us) : us[i] # SpentId}

EmailTaken(email, us) == \E i \in UserIds(us) : us[i].email = email

\* one request of app.post('/auth/register'): where it stands, the hash it
\* computed, the id its INSERT returned and the status it answered
RegisterArrived(body) ==
    [status |-> 0, handler |-> "register", error |-> "", userId |-> 0, body |-> body,
     pc |-> "arrived", hashedPassword |-> <<>>]

\* the request answered with an error
Refused(p, status, error) == [p EXCEPT !.pc = "done", !.status = status, !.error = error]

\* Lines 144-176: validation, SELECT id FROM users WHERE email = $1 and the
\* check on its result
RegisterSelectStep(p, us) ==
    IF p.body.name = "" \/ p.body.email = "" \/ p.body.password = ""
    THEN Refused(p, 400, "Name, email, and password are required")
    ELSE IF p.body.phone = <<>>
    THEN Refused(p, 400, "Phone number is required")
    ELSE IF Trim(p.body.phone) = <<>>
    THEN Refused(p, 400, "Phone number cannot be empty")
    ELSE IF Len(DigitsOnly(Trim(p.body.phone))) < MinPhoneDigits
    THEN Refused(p, 400, "Phone number must be at least 10 digits")
    ELSE IF EmailTaken(p.body.email, us)
    THEN Refused(p, 400, "User with this email already exists")
    ELSE [p EXCEPT !.pc = "checked"]

\* Line 179: await bcrypt.hash(password, 10), which rejects a password that
\* is not a string; the catch turns that into 500
RegisterHashStep(p) ==
    IF ~IsText(p.body.password)
    THEN Refused(p, 500, "Internal server error")
    ELSE [p EXCEPT !.pc = "hashed", !.hashedPassword = Hash(p.body.password)]

\* an INSERT that makes the first account the administrator
RegisterInsertFirstIsAdmin(p, us) ==
    IF EmailTaken(p.body.email, us)
    THEN [proc |-> Refused(p, 400, "User with this email or phone already exists"),
          users |-> Append(us, SpentId)]
    ELSE [proc |-> [p EXCEPT !.pc = "done", !.status = 201, !.userId = Len(us) + 1],
          users |-> Append(us, [name |-> p.body.name, email |-> p.body.email,
                                password |-> p.hashedPassword,
                                phone |-> Trim(p.body.phone),
                                is_admin |-> (UserIds(us) = {})])]

\* Lines 183-186 and the catch of line 211: INSERT INTO users ... RETURNING
\* id.  The sequence gives the next id before the UNIQUE constraint on
\* email is checked; a violation (code 23505) is answered 400.
RegisterInsertStep(p, us) ==
    IF EmailTaken(p.body.email, us)
    THEN [proc |-> Refused(p, 400, "User with this email or phone already exists"),
          users |-> Append(us, SpentId)]
    ELSE [proc |-> [p EXCEPT !.pc = "done", !.status = 201, !.userId = Len(us) + 1],
          users |-> Append(us, [name |-> p.body.name, email |-> p.body.email,
                                password |-> p.hashedPassword,
                                phone |-> Trim(p.body.phone),
                                is_admin |-> FALSE])]

\* the row SELECT ... FROM users WHERE email = $1 returns first
UserByEmail(email, us) == CHOOSE i \in UserIds(us) : us[i].email = email

\* the columns SELECT id, name, email, password, is_admin reads of row i
NoUser == [name |-> "", id |-> 0, password |-> <<>>, email |-> "", is_admin |-> FALSE]
LoginRow(i, us) ==
    [name |-> us[i].name, id |-> i, password |-> us[i].password,
     email |-> us[i].email, is_admin |-> us[i].is_admin]

\* one request of app.post('/auth/login'): where it stands and the row its
\* SELECT returned
LoginArrived(body) ==
    [status |-> 0, handler |-> "login", error |-> "", userId |-> 0, body |-> body,
     pc |-> "arrived", user |-> NoUser]

\* Lines 234-250: validation, SELECT ... FROM users WHERE email = $1 and the
\* check on its result; the handler keeps the row it read
LoginSelectStep(p, us) ==
    IF p.body.email = "" \/ p.body.password = ""
    THEN Refused(p, 400, "Email and password are required")
    ELSE IF ~EmailTaken(p.body.email, us)
    THEN Refused(p, 401, "Invalid email or password")
    ELSE [p EXCEPT !.pc = "found", !.user = LoginRow(UserByEmail(p.body.email, us), us)]

\* Lines 253-273: await bcrypt.compare(password, user.password) on the row
\* read before, which rejects a password that is not a string (the catch
\* turns that into 500), and the answer
LoginCompareStep(p) ==
    IF ~IsText(p.body.password)
    THEN Refused(p, 500, "Internal server error")
    ELSE IF ~Compare(p.body.password, p.user.password)
    THEN Refused(p, 401, "Invalid email or password")
    ELSE [p EXCEPT !.pc = "done", !.status = 200, !.userId = p.user.id]

\* jwt.sign of the answer: lines 191-195 with the email of the request and
\* isAdmin false, lines 258-262 with the email and is_admin of the row read
SignedFor(p) ==
    IF p.handler = "register" /\ p.status = 201
    THEN Sign(p.userId, p.body.email, FALSE)
    ELSE IF p.handler = "login" /\ p.status = 200
    THEN Sign(p.user.id, p.user.email, p.user.is_admin)
    ELSE NoToken

InitAuth ==
    /\ stations = [id \in StationIds |-> StationPool[id]]
    /\ bookings = <<>>
    /\ req = NoReq
    /\ resp = NoResp
    /\ evalIn = EvalIdle
    /\ evalOut = EvalOutIdle
    /\ searchIn = SearchIdle
    /\ searchOut = SearchIdle
    /\ LaterIdle

\* the answer of an account request, none while it is in flight
AuthAnswerOf(p) ==
    [status |-> p.status, error |-> p.error, userId |-> p.userId, token |-> SignedFor(p)]

\* rows of users, with the ids spent, that exist or are about to be inserted
UsersDue ==
    LET inserting == {q \in InFlight : q.handler = "register"}
    IN Len(users) + BagCardinality([q \in inserting |-> procs[q]])

authFrame == <<stations, bookings, evalIn, evalOut, searchIn, searchOut,
               discIn, discOut, trips, waypoints>>

\* POST /auth/register up to the answer of its SELECT
RegisterArrives(bodies) ==
    \E body \in bodies :
        \E p \in {RegisterSelectStep(RegisterArrived(body), users)} :
        /\ Dispatch("POST", <<"auth", "register">>) = "register"
        /\ MayArrive(TRUE)
        /\ UsersDue < MaxUsers
        /\ req' = StepOf("POST", <<"auth", "register">>, body, p)
        /\ resp' = AuthAnswerOf(p)
        /\ procs' = Launched(procs, p)
        /\ UNCHANGED <<users, authFrame>>

\* POST /auth/register: bcrypt.hash settles
RegisterHashes ==
    \E q \in {k \in InFlight : k.handler = "register" /\ k.pc = "checked"} :
        \E p \in {RegisterHashStep(q)} :
        /\ req' = StepOf("POST", <<"auth", "register">>, q.body, p)
        /\ resp' = AuthAnswerOf(p)
        /\ procs' = Stepped(procs, q, p)
        /\ UNCHANGED <<users, authFrame>>

\* POST /auth/register: the INSERT and the answer
RegisterInserts ==
    \E q \in {k \in InFlight : k.handler = "register" /\ k.pc = "hashed"} :
        \E r \in {RegisterInsertStep(q, users)} :
        /\ req' = StepOf("POST", <<"auth", "register">>, q.body, r.proc)
        /\ resp' = AuthAnswerOf(r.proc)
        /\ procs' = Stepped(procs, q, r.proc)
        /\ users' = r.users
        /\ UNCHANGED authFrame

RegisterSteps == RegisterHashes \/ RegisterInserts

Register ==
    RegisterArrives([name : Names, email : Emails, password : RegisterPasswords,
                     phone : Phones])

\* POST /auth/login up to the answer of its SELECT
LoginArrives(bodies) ==
    \E body \in bodies :
        \E p \in {LoginSelectStep(LoginArrived(body), users)} :
        /\ Dispatch("POST", <<"auth", "login">>) = "login"
        /\ MayArrive(TRUE)
        /\ req' = StepOf("POST", <<"auth", "login">>, body, p)
        /\ resp' = AuthAnswerOf(p)
        /\ procs' = Launched(procs, p)
        /\ UNCHANGED <<users, authFrame>>

\* POST /auth/login: bcrypt.compare settles, and the answer
LoginCompares ==
    \E q \in {k \in InFlight : k.handler = "login" /\ k.pc = "found"} :
        \E p \in {LoginCompareStep(q)} :
        /\ req' = StepOf("POST", <<"auth", "login">>, q.body, p)
        /\ resp' = AuthAnswerOf(p)
        /\ procs' = Stepped(procs, q, p)
        /\ UNCHANGED <<users, authFrame>>

Login == LoginArrives([email : Emails, password : Passwords])

NextAuth == Register \/ RegisterSteps \/ Login \/ LoginCompares

SpecAuth == InitAuth /\ [][NextAuth]_vars

-----------------------------------------------------------------------------
\* Claims on registration and login (specification SpecAuth)

\* digit characters of a phone, counted one by one
DigitCount(phone) == Cardinality({i \in 1..Len(phone) : phone[i] \in DigitChars})

\* C14: a registration whose phone has fewer than 10 digit characters is
\* answered 400 and creates no user row, whatever name, email and password.
C14_ShortPhoneRejected ==
    [][ (req'.handler = "register" /\ DigitCount(req'.body.phone) < 10)
            => (resp'.status = 400 /\ users' = users) ]_vars

C14_Witness ==
    /\ req.handler = "register"
    /\ req.body.name # "" /\ req.body.email # "" /\ req.body.password = "pw1"
    /\ Len(req.body.phone) = 10
    /\ DigitCount(req.body.phone) = 9
    /\ resp.status = 400
    /\ resp.error = "Phone number must be at least 10 digits"
    /\ Len(users) = 1

\* a login that fails on the credentials: unknown email, or known email with
\* a password that is not the user's
UnknownEmail == ~EmailTaken(req.body.email, users)
WrongPassword ==
    /\ EmailTaken(req.body.email, users)
    /\ \A i \in 1..Len(users) :
         users[i].email = req.body.email => users[i].password # Hash(req.body.password)

\* C17 (as claimed): a login with an unknown email and a login with a known
\* email and a wrong password get the same response, 401 with one message.
C17_FailedLoginsIndistinguishable ==
    (req.handler = "login" /\ resp.status # 0
        /\ req.body.email # "" /\ req.body.password # ""
        /\ (UnknownEmail \/ WrongPassword))
    => /\ resp.status = 401
       /\ resp.error = "Invalid email or password"
       /\ resp.userId = 0
       /\ resp.token = NoToken

-----------------------------------------------------------------------------
\* The authentication middleware in front of the gated routes

\* Bearer tokens a client can send: two signed by this server and unexpired
\* (user 1 is an administrator, user 2 is not), one signed before is_admin
\* existed (no isAdmin claim), one with a wrong signature, one expired.
Tokens == {"jwt:1:admin", "jwt:2:user", "jwt:1:noflag", "forged", "expired"}

\* jwt.verify(token, JWT_SECRET): the decoded payload, or a throw
Verify(token) ==
    CASE token = "jwt:1:admin"  -> [ok |-> TRUE,  userId |-> 1, isAdmin |-> <<TRUE>>]
      [] token = "jwt:2:user"   -> [ok |-> TRUE,  userId |-> 2, isAdmin |-> <<FALSE>>]
      [] token = "jwt:1:noflag" -> [ok |-> TRUE,  userId |-> 1, isAdmin |-> <<>>]
      [] OTHER                  -> [ok |-> FALSE, userId |-> 0, isAdmin |-> <<>>]

\* The Authorization header as authHeader.split(' ') sees it; <<>> is no header
Headers ==
    {<<>>, <<"Bearer">>, <<"Bearer", "">>}
        \cup {<<"Bearer", t>> : t \in Tokens}
        \cup {<<"Token", "jwt:2:user">>}

\* authHeader && authHeader.split(' ')[1]; "" is a falsy token
TokenOf(header) == IF Len(header) >= 2 THEN header[2] ELSE ""

\* What a middleware did: the responses it sent, and whether it called next()
Rejected(status, error) ==
    [responses |-> 1, status |-> status, error |-> error, next |-> FALSE,
     userId |-> 0, isAdmin |-> FALSE]
Passed(userId, isAdmin) ==
    [responses |-> 0, status |-> 0, error |-> "", next |-> TRUE,
     userId |-> userId, isAdmin |-> isAdmin]

\* authenticateToken with the catch of lines 118-120 calling next()
AuthenticateTokenUnverified(header) ==
    IF TokenOf(header) = ""
    THEN Rejected(401, "Access token required")
    ELSE Passed(Verify(TokenOf(header)).userId,
                Verify(TokenOf(header)).isAdmin = <<TRUE>>)

\* authenticateToken up to its call of next()
AuthenticateToken(header) ==
    IF TokenOf(header) = ""
    THEN Rejected(401, "Access token required")
    ELSE IF ~Verify(TokenOf(header)).ok
    THEN Rejected(403, "Invalid or expired token")
    ELSE Passed(Verify(TokenOf(header)).userId,
                Verify(TokenOf(header)).isAdmin = <<TRUE>>)

\* authenticateAdmin without the return of line 130: the 403 is sent and
\* next() is called all the same
AuthenticateAdminFallThrough(header) ==
    LET a == AuthenticateToken(header) IN
    IF ~a.next THEN a
    ELSE IF ~a.isAdmin
    THEN [Rejected(403, "Admin access required") EXCEPT !.next = TRUE, !.userId = a.userId]
    ELSE a

\* authenticateAdmin
AuthenticateAdmin(header) ==
    LET a == AuthenticateToken(header) IN
    IF ~a.next THEN a
    ELSE IF ~a.isAdmin THEN Rejected(403, "Admin access required")
    ELSE a

Guard(guard, header) ==
    CASE guard = "token" -> AuthenticateToken(header)
      [] guard = "admin" -> AuthenticateAdmin(header)
      [] OTHER -> Passed(0, FALSE)

\* Bodies of POST and PUT /admin/stations: the NOT NULL columns and the
\* status, each given or absent
AdminBodies ==
    { [name |-> <<"Golf">>, address |-> <<"MG Road">>, latitude |-> <<11>>,
       longitude |-> <<76>>, status |-> <<"maintenance">>],
      [name |-> <<"Golf">>, address |-> <<"MG Road">>, latitude |-> <<11>>,
       longitude |-> <<76>>, status |-> <<>>],
      [name |-> <<"Golf">>, address |-> <<>>, latitude |-> <<11>>,
       longitude |-> <<76>>, status |-> <<"maintenance">>],
      [name |-> <<>>, address |-> <<>>, latitude |-> <<>>,
       longitude |-> <<>>, status |-> <<"inactive">>],
      [name |-> <<"Golf">>, address |-> <<"MG Road">>, latitude |-> <<11>>,
       longitude |-> <<76>>, status |-> <<"closed">>] }

\* NOT NULL columns of charging_stations (name, address, latitude,
\* longitude) all given
RequiredGiven(body) ==
    /\ Given(body.name)
    /\ Given(body.address)
    /\ Given(body.latitude)
    /\ Given(body.longitude)

\* the id the SERIAL column gives the next row of a table on which no row
\* was removed and no insert failed, as in every table of GateTables
NextStationId(st) ==
    IF DOMAIN st = {} THEN 1
    ELSE (CHOOSE id \in DOMAIN st : \A other \in DOMAIN st : other <= id) + 1

\* POST /admin/stations (after authenticateAdmin)
AdminCreateStationHandler(body, st, bk) ==
    IF ~RequiredGiven(body)
    THEN Reply(500, "Internal server error", NoStation, st, bk)
    ELSE LET id == NextStationId(st)
             created == [i \in DOMAIN st \cup {id} |->
                            IF i = id
                            THEN [name |-> body.name[1], latitude |-> body.latitude[1],
                                  longitude |-> body.longitude[1], status |-> "available"]
                            ELSE st[i]]
         IN Reply(201, "", Row(id, created), created, bk)

\* PUT /admin/stations/:id (after authenticateAdmin): every column is set
\* from the body, an absent one to NULL; NOT NULL and the status CHECK are
\* evaluated on the row being updated
AdminUpdateStationHandler(id, body, st, bk) ==
    IF id \notin IntText
    THEN Reply(500, "Internal server error", NoStation, st, bk)
    ELSE IF ToInt(id) \notin DOMAIN st
    THEN Reply(404, "Station not found", NoStation, st, bk)
    ELSE IF ~RequiredGiven(body)
    THEN Reply(500, "Internal server error", NoStation, st, bk)
    ELSE IF Given(body.status) /\ body.status[1] \notin StationStatus
    THEN Reply(500, "Internal server error", NoStation, st, bk)
    ELSE LET updated == [st EXCEPT ![ToInt(id)] =
                            [name |-> body.name[1], latitude |-> body.latitude[1],
                             longitude |-> body.longitude[1],
                             status |-> IF Given(body.status) THEN body.status[1] ELSE "NULL"]]
         IN Reply(200, "", Row(ToInt(id), updated), updated, bk)

\* DELETE /admin/stations/:id (after authenticateAdmin): the bookings of the
\* station go with it (ON DELETE CASCADE)
AdminDeleteStationHandler(id, st, bk) ==
    IF id \notin IntText
    THEN Reply(500, "Internal server error", NoStation, st, bk)
    ELSE IF ToInt(id) \notin DOMAIN st
    THEN Reply(404, "Station not found", NoStation, st, bk)
    ELSE Reply(200, "", NoStation,
               [i \in DOMAIN st \ {ToInt(id)} |-> st[i]],
               [i \in 1..Len(bk) |->
                   IF bk[i].station_id = ToInt(id)
                   THEN [bk[i] EXCEPT !.status = "deleted"] ELSE bk[i]])

\* Handlers that write neither charging_stations nor bookings: the statuses
\* they can send
OtherStatuses(handler) ==
    CASE handler = "logout"         -> {200}
      [] handler = "planTrip"       -> {201, 400, 500}
      [] handler = "updateTrip"     -> {200, 400, 404, 500}
      [] handler = "putProfile"     -> {200, 400, 500}
      [] handler = "getProfile"     -> {200, 404, 500}
      [] OTHER                      -> {200, 500}

\* The handler of a gated route run for the authenticated user: the possible
\* replies
RunHandler(handler, userId, path, body, st, bk) ==
    CASE handler = "createBooking" -> {CreateBookingHandler(userId, body, st, bk)}
      [] handler = "cancelBooking" ->
            {IF path[2] \in IntText
             THEN CancelBookingHandler(userId, ToInt(path[2]), st, bk)
             ELSE Reply(500, "Internal server error", NoStation, st, bk)}
      [] handler = "adminCreateStation" -> {AdminCreateStationHandler(body, st, bk)}
      [] handler = "adminUpdateStation" -> {AdminUpdateStationHandler(path[3], body, st, bk)}
      [] handler = "adminDeleteStation" -> {AdminDeleteStationHandler(path[3], st, bk)}
      [] OTHER -> {Reply(status, "", NoStation, st, bk) : status \in OtherStatuses(handler)}

\* A request through the middleware of its route and, if the middleware
\* called next(), through the handler: what was sent and the tables after
Pipeline(route, path, header, body, st, bk) ==
    LET g == Guard(route.guard, header) IN
    IF ~g.next
    THEN {[responses |-> g.responses, status |-> g.status, error |-> g.error,
           ran |-> "", userId |-> g.userId, isAdmin |-> g.isAdmin,
           stations |-> st, bookings |-> bk]}
    ELSE {[responses |-> g.responses + 1,
           status |-> IF g.responses = 0 THEN r.status ELSE g.status,
           error |-> IF g.responses = 0 THEN r.error ELSE g.error,
           ran |-> route.handler, userId |-> g.userId, isAdmin |-> g.isAdmin,
           stations |-> r.stations, bookings |-> r.bookings]
          : r \in RunHandler(route.handler, g.userId, path, body, st, bk)}

\* Tables the API reaches from two available stations: untouched, after
\* user 1 booked station 1, after user 1 cancelled that booking, after user 2
\* booked station 2 as well
GateTables ==
    LET fresh == Reply(0, "", NoStation,
                       [id \in StationIds |-> [StationPool[id] EXCEPT !.status = "available"]],
                       <<>>)
        booked == CreateBookingHandler(1, [station_id |-> 1, start_time |-> 600],
                                       fresh.stations, fresh.bookings)
        cancelled == CancelBookingHandler(1, 1, booked.stations, booked.bookings)
        both == CreateBookingHandler(2, [station_id |-> 2, start_time |-> 600],
                                     booked.stations, booked.bookings)
    IN {fresh, booked, cancelled, both}

GatedRoutes == {i \in 1..Len(Routes) : Routes[i].guard # "none"}

\* the request bodies tried on a route
Bodies(handler) ==
    CASE handler = "createBooking" -> [station_id : RequestStationIds, start_time : StartTimes]
      [] handler \in {"adminCreateStation", "adminUpdateStation"} -> AdminBodies
      [] OTHER -> {NoReq.body}

\* the paths of a route pattern with its :id segment filled in
Paths(pattern) ==
    {[k \in 1..Len(pattern) |-> IF pattern[k] = ":id" THEN id ELSE pattern[k]]
        : id \in {"1", "2", "3"}}

GateIdle == [done |-> FALSE]

InitGate ==
    /\ \E t \in GateTables : stations = t.stations /\ bookings = t.bookings
    /\ req = GateIdle
    /\ resp = GateIdle
    /\ evalIn = EvalIdle
    /\ evalOut = EvalOutIdle
    /\ searchIn = SearchIdle
    /\ searchOut = SearchIdle
    /\ LaterIdle

\* One request to a gated route
Gate ==
    /\ ~req.done
    /\ \E i \in GatedRoutes, header \in Headers :
       \E path \in Paths(Routes[i].pattern), body \in Bodies(Routes[i].handler) :
       \E r \in Pipeline(RouteOf(Routes[i].method, path), path, header, body,
                         stations, bookings) :
         /\ req' = [done |-> TRUE, method |-> Routes[i].method, path |-> path,
                    route |-> RouteOf(Routes[i].method, path),
                    header |-> header, body |-> body]
         /\ resp' = [done |-> TRUE, responses |-> r.responses, status |-> r.status,
                     error |-> r.error, ran |-> r.ran]
         /\ stations' = r.stations
         /\ bookings' = r.bookings
    /\ UNCHANGED <<evalIn, evalOut, searchIn, searchOut, laterVars>>

NextGate == Gate

SpecGate == InitGate /\ [][NextGate]_vars

-----------------------------------------------------------------------------
\* Claims on the middleware (specification SpecGate)

\* C15: on every user-gated route a request without a bearer token is
\* answered 401, one whose token fails verification 403; in both cases the
\* handler is not executed and the store is not modified.
C15_UserGateRejects ==
    [][ (req'.done /\ req'.route.guard = "token")
        => LET header == req'.header
               noToken == Len(header) < 2 \/ header[2] = ""
               badToken == ~noToken /\ header[2] \in {"forged", "expired"}
           IN /\ noToken => resp'.status = 401
              /\ badToken => resp'.status = 403
              /\ (noToken \/ badToken)
                    => /\ resp'.ran = ""
                       /\ stations' = stations
                       /\ bookings' = bookings ]_vars

C15_Witness ==
    /\ req.done
    /\ req.route.handler = "createBooking"
    /\ req.header = <<"Bearer", "expired">>
    /\ req.body.station_id = 2 /\ req.body.start_time = 600
    /\ stations[2].status = "available"
    /\ resp.status = 403
    /\ resp.ran = ""

AdminRouteHandlers ==
    {"adminStats", "adminUsers", "adminBookings",
     "adminCreateStation", "adminUpdateStation", "adminDeleteStation"}

\* C16: on every admin-gated route the handler is executed only if the token
\* verifies and carries the admin flag; a valid token without the flag is
\* answered 403; exactly one response is sent per request.
C16_AdminGate ==
    (req.done /\ req.route.handler \in AdminRouteHandlers)
    => LET header == req.header
           admin == Len(header) >= 2 /\ header[2] = "jwt:1:admin"
           plain == Len(header) >= 2 /\ header[2] \in {"jwt:2:user", "jwt:1:noflag"}
       IN /\ resp.ran # "" => admin
          /\ plain => (resp.status = 403 /\ resp.ran = "")
          /\ resp.responses = 1

C16_Witness ==
    /\ req.done
    /\ req.route.handler = "adminDeleteStation"
    /\ req.header = <<"Bearer", "jwt:2:user">>
    /\ resp.status = 403
    /\ resp.error = "Admin access required"
    /\ resp.responses = 1
    /\ 1 \in DOMAIN stations

-----------------------------------------------------------------------------
\* Trips: POST /trips/plan and POST /trips/:id/update over the trips and
\* trip_waypoints tables, next to station search over charging_stations

TripReply(status, error, evaluation, tr, wp) ==
    [status |-> status, error |-> error, evaluation |-> evaluation,
     trips |-> tr, waypoints |-> wp]

\* the evaluator was not called / returned this value
NotEvaluated == [called |-> FALSE, suggestion |-> NullSuggestion, providerCalls |-> <<>>]
Evaluated(result) ==
    [called |-> TRUE, suggestion |-> result.suggestion,
     providerCalls |-> result.providerCalls]

\* POST /trips/plan (after authenticateToken set req.userId)
PlanTripHandler(userId, body, tr, wp) ==
    IF ~Given(body.start_location) \/ ~Given(body.destination)
        \/ ~Given(body.battery_start_pct)
    THEN TripReply(400, "Start location, destination, and battery level are required",
                   NotEvaluated, tr, wp)
    ELSE TripReply(201, "", NotEvaluated,
                   Append(tr, [user_id |-> userId, status |-> "active",
                               battery_current_pct |-> body.battery_start_pct[1]]),
                   wp)

ActiveTripAnyOwner(id, userId, tr) ==
    {i \in 1..Len(tr) : i = id /\ tr[i].status = "active"}

\* SELECT * FROM trips WHERE id = $1 AND user_id = $2 AND status = 'active'
ActiveTrip(id, userId, tr) ==
    {i \in 1..Len(tr) : i = id /\ tr[i].user_id = userId /\ tr[i].status = "active"}

\* suggestion.station.id.startsWith('ext_')
StartsWithExt(id) == Len(id) >= 1 /\ id[1] = "ext_"

WaypointStationIdRaw(station) == <<station.id>>

\* the station_id column of the waypoint; <<>> is NULL
WaypointStationId(station) ==
    IF StartsWithExt(station.id) THEN <<>> ELSE <<station.id>>

\* one request of app.post('/trips/:id/update'), after authenticateToken set
\* req.userId: where it stands and what the evaluator returned to it
TripArrived(userId, id, body) ==
    [status |-> 0, handler |-> "updateTrip", error |-> "", id |-> id, userId |-> userId,
     body |-> body, pc |-> "arrived", evaluation |-> NotEvaluated]

\* Lines 763-779: validation, SELECT * FROM trips WHERE id = $1 AND
\* user_id = $2 AND status = 'active' and the check on its result
TripSelectStep(p, tr) ==
    IF ~Given(p.body.current_location) \/ ~Given(p.body.battery_current_pct)
    THEN Refused(p, 400, "Current location and battery level are required")
    ELSE IF p.id \notin IntText
    THEN Refused(p, 500, "Internal server error")
    ELSE IF ActiveTrip(ToInt(p.id), p.userId, tr) = {}
    THEN Refused(p, 404, "Active trip not found")
    ELSE [p EXCEPT !.pc = "selected"]

\* Lines 782-785: UPDATE trips SET battery_current_pct = $1 WHERE id = $2
TripUpdateStep(p, tr) ==
    [proc |-> [p EXCEPT !.pc = "updated"],
     trips |-> [tr EXCEPT ![ToInt(p.id)].battery_current_pct = p.body.battery_current_pct[1]]]

\* Lines 788-803: await evaluateSmartSuggestions at wall-clock hour `hour`,
\* with the environment of searchExternalStations; without a suggestion the
\* request is answered at once
TripEvaluateStep(p, hour, apiKey, provider) ==
    LET result == EvaluateSmartSuggestions(hour, p.body.battery_current_pct[1],
                                           SearchExternalStations(apiKey, provider))
    IN IF result.suggestion = NullSuggestion
       THEN [p EXCEPT !.pc = "done", !.status = 200, !.evaluation = Evaluated(result)]
       ELSE [p EXCEPT !.pc = "evaluated", !.evaluation = Evaluated(result)]

\* Lines 790-798: INSERT INTO trip_waypoints, then the answer
TripInsertStep(p, wp) ==
    LET suggestion == p.evaluation.suggestion IN
    [proc |-> [p EXCEPT !.pc = "done", !.status = 200],
     waypoints |-> Append(wp, [trip_id |-> ToInt(p.id),
                               station_id |-> WaypointStationId(suggestion.station),
                               type |-> "suggested_stop",
                               suggestion_message |-> suggestion.message,
                               charge_duration_mins |-> suggestion.chargeDuration])]

\* The INSERT of line 792 fails: the catch answers 500; the UPDATE of line
\* 782 stays (no transaction)
TripInsertFailsStep(p, wp) ==
    [proc |-> Refused(p, 500, "Internal server error"), waypoints |-> wp]

\* ids the trips table gives out
TripIds == {1, 2}

\* hours of the clock, batteries and provider outcomes tried on trip updates
TripHours == {10, 13}
TripBatteries == {<<>>, <<40>>, <<80>>}
ZuluPlace == CHOOSE place \in PlacePool : place.title = "Zulu"
\* whether SERPER_API_KEY is set, and the provider's outcome
TripEnvs ==
    {[apiKey |-> FALSE, provider |-> [fails |-> FALSE, malformed |-> FALSE, places |-> <<ZuluPlace>>]],
     [apiKey |-> TRUE,  provider |-> [fails |-> TRUE,  malformed |-> FALSE, places |-> <<>>]],
     [apiKey |-> TRUE,  provider |-> [fails |-> FALSE, malformed |-> FALSE, places |-> <<ZuluPlace>>]]}

NoTripReq == [handler |-> "", userId |-> 0, id |-> "", body |-> <<>>, hour |-> 0,
              apiKey |-> FALSE, provider |-> [fails |-> TRUE, malformed |-> FALSE, places |-> <<>>]]
NoTripResp == [status |-> 0, error |-> "", evaluation |-> NotEvaluated, results |-> <<>>]

\* The trips table at the start: empty, or holding a trip of user 1 that
\* was closed in the database (no route changes trips.status)
InitTrips ==
    /\ stations = [id \in StationIds |-> StationPool[id]]
    /\ bookings = <<>>
    /\ req = NoTripReq
    /\ resp = NoTripResp
    /\ evalIn = EvalIdle
    /\ evalOut = EvalOutIdle
    /\ searchIn = SearchIdle
    /\ searchOut = SearchIdle
    /\ discIn = DiscIdle
    /\ discOut = DiscIdle
    /\ users = <<>>
    /\ procs = <<>>
    /\ trips \in {<<>>, <<[user_id |-> 1, status |-> "completed",
                           battery_current_pct |-> 80]>>}
    /\ waypoints = <<>>

tripFrame == <<bookings, evalIn, evalOut, searchIn, searchOut, discIn, discOut, users, procs>>

PlanTrip ==
    \E u \in Users, battery \in {<<>>, <<80>>} :
        LET body == [start_location |-> <<10, 76>>, destination |-> <<11, 77>>,
                     battery_start_pct |-> battery]
        IN
        \E r \in {PlanTripHandler(u, body, trips, waypoints)} :
        /\ RouteOf("POST", <<"trips", "plan">>).handler = "planTrip"
        /\ Len(trips) + 1 \in TripIds
        /\ req' = [NoTripReq EXCEPT !.handler = "planTrip", !.userId = u, !.body = body]
        /\ resp' = [NoTripResp EXCEPT !.status = r.status, !.error = r.error]
        /\ trips' = r.trips
        /\ waypoints' = r.waypoints
        /\ UNCHANGED <<stations, tripFrame>>

\* the request of the update handler as the step of p leaves it, with the
\* hour and the environment the step read
TripStepOf(p, hour, env) ==
    [handler |-> "updateTrip", userId |-> p.userId, id |-> p.id, body |-> p.body,
     hour |-> hour, apiKey |-> env.apiKey, provider |-> env.provider, proc |-> p]

NoEnv == [apiKey |-> NoTripReq.apiKey, provider |-> NoTripReq.provider]

\* the answer of p, none while it is in flight; only the 200 of line 801
\* carries the suggestion
TripAnswerOf(p) ==
    IF p.pc = "done"
    THEN [NoTripResp EXCEPT !.status = p.status, !.error = p.error,
                            !.evaluation = IF p.status = 200 THEN p.evaluation
                                           ELSE NotEvaluated]
    ELSE NoTripResp

\* rows of trip_waypoints that exist or may yet be inserted
WaypointsDue ==
    LET updating == {q \in InFlight : q.handler = "updateTrip"}
    IN Len(waypoints) + BagCardinality([q \in updating |-> procs[q]])

tripStepFrame == <<bookings, evalIn, evalOut, searchIn, searchOut, discIn, discOut, users>>

\* POST /trips/:id/update up to the answer of its SELECT
UpdateTripArrives ==
    \E u \in Users, id \in {"1", "2", "3"}, battery \in TripBatteries :
        LET body == [current_location |-> <<10, 76>>, battery_current_pct |-> battery]
        IN
        \E p \in {TripSelectStep(TripArrived(u, id, body), trips)} :
        /\ RouteOf("POST", <<"trips", id, "update">>).handler = "updateTrip"
        /\ MayArrive(TRUE)
        /\ WaypointsDue < MaxWaypoints
        /\ req' = TripStepOf(p, 0, NoEnv)
        /\ resp' = TripAnswerOf(p)
        /\ procs' = Launched(procs, p)
        /\ UNCHANGED <<stations, trips, waypoints, tripStepFrame>>

\* POST /trips/:id/update: the UPDATE of the trip
UpdateTripUpdates ==
    \E q \in {k \in InFlight : k.handler = "updateTrip" /\ k.pc = "selected"} :
        \E r \in {TripUpdateStep(q, trips)} :
        /\ req' = TripStepOf(r.proc, 0, NoEnv)
        /\ resp' = TripAnswerOf(r.proc)
        /\ procs' = Stepped(procs, q, r.proc)
        /\ trips' = r.trips
        /\ UNCHANGED <<stations, waypoints, tripStepFrame>>

\* POST /trips/:id/update: the evaluator returns
UpdateTripEvaluates ==
    \E q \in {k \in InFlight : k.handler = "updateTrip" /\ k.pc = "updated"},
       hour \in TripHours, env \in TripEnvs :
        \E p \in {TripEvaluateStep(q, hour, env.apiKey, env.provider)} :
        /\ req' = TripStepOf(p, hour, env)
        /\ resp' = TripAnswerOf(p)
        /\ procs' = Stepped(procs, q, p)
        /\ UNCHANGED <<stations, trips, waypoints, tripStepFrame>>

\* POST /trips/:id/update: the INSERT of the waypoint and the answer
UpdateTripInserts ==
    \E q \in {k \in InFlight : k.handler = "updateTrip" /\ k.pc = "evaluated"} :
        \E r \in {TripInsertStep(q, waypoints)} :
        /\ req' = TripStepOf(r.proc, 0, NoEnv)
        /\ resp' = TripAnswerOf(r.proc)
        /\ procs' = Stepped(procs, q, r.proc)
        /\ waypoints' = r.waypoints
        /\ UNCHANGED <<stations, trips, tripStepFrame>>

\* POST /trips/:id/update: the INSERT of the waypoint fails
UpdateTripInsertFails ==
    \E q \in {k \in InFlight : k.handler = "updateTrip" /\ k.pc = "evaluated"} :
        \E r \in {TripInsertFailsStep(q, waypoints)} :
        /\ req' = TripStepOf(r.proc, 0, NoEnv)
        /\ resp' = TripAnswerOf(r.proc)
        /\ procs' = Stepped(procs, q, r.proc)
        /\ waypoints' = r.waypoints
        /\ UNCHANGED <<stations, trips, tripStepFrame>>

UpdateTrip ==
    \/ UpdateTripArrives
    \/ UpdateTripUpdates
    \/ UpdateTripEvaluates
    \/ UpdateTripInserts

\* the station-search handler run on a query
TripSearch ==
    \E latitude \in Latitudes, env \in TripEnvs :
        LET query == [latitude |-> latitude, longitude |-> <<76>>, radius |-> <<>>] IN
        \E results \in (IF Given(latitude) THEN PrimaryResults(query, stations) ELSE {<<>>}) :
        \E r \in {StationSearchHandler(query, results, env.apiKey, env.provider)} :
            /\ req' = [NoTripReq EXCEPT !.handler = "stationSearch", !.body = query,
                                        !.apiKey = env.apiKey, !.provider = env.provider]
            /\ resp' = [NoTripResp EXCEPT !.status = r.status, !.results = r.results]
            /\ UNCHANGED <<stations, trips, waypoints, tripFrame>>

\* The trip routes; the store may fail the INSERT of a waypoint
NextTrips == PlanTrip \/ UpdateTrip \/ UpdateTripInsertFails \/ TripSearch

SpecTrips == InitTrips /\ [][NextTrips]_vars

-----------------------------------------------------------------------------
\* Claims on trips and external stations (specification SpecTrips)

\* C19 (as claimed): a trip-update request inserts a trip waypoint if and
\* only if the evaluator returned a non-null suggestion to it: it inserts one
\* waypoint as it is answered with the suggestion, and none in any other
\* step; the waypoint has type suggested_stop and, when the suggested
\* station's id starts with 'ext_', a null station id.
C19_WaypointIffSuggestion ==
    [][ req'.handler = "updateTrip"
        => LET returned == /\ resp'.status = 200
                           /\ resp'.evaluation.called
                           /\ resp'.evaluation.suggestion.type # "null" IN
           /\ (req'.proc.evaluation.suggestion.type # "null" /\ resp'.status # 0)
                => returned
           /\ returned => /\ Len(waypoints') = Len(waypoints) + 1
                          /\ SubSeq(waypoints', 1, Len(waypoints)) = waypoints
                          /\ LET w == waypoints'[Len(waypoints')]
                                 station == resp'.evaluation.suggestion.station IN
                             /\ w.type = "suggested_stop"
                             /\ w.trip_id = ToInt(req'.id)
                             /\ station.id[1] = "ext_" => w.station_id = <<>>
           /\ ~returned => waypoints' = waypoints ]_vars

\* C19 (amended): a trip-update request inserts a trip waypoint if and only
\* if the evaluator returned a non-null suggestion to it and the insert did
\* not fail: a request with a suggestion is answered 200, having inserted one
\* waypoint, or 500, having inserted none, and no other step inserts one; the
\* waypoint has type suggested_stop and, when the suggested station's id
\* starts with 'ext_', a null station id.
C19_WaypointIffSuggestionStored ==
    [][ req'.handler = "updateTrip"
        => LET suggested == /\ resp'.status # 0
                            /\ req'.proc.evaluation.called
                            /\ req'.proc.evaluation.suggestion.type # "null"
               stored == suggested /\ resp'.status = 200 IN
           /\ suggested => resp'.status \in {200, 500}
           /\ stored => resp'.evaluation = req'.proc.evaluation
           /\ stored => /\ Len(waypoints') = Len(waypoints) + 1
                        /\ SubSeq(waypoints', 1, Len(waypoints)) = waypoints
                        /\ LET w == waypoints'[Len(waypoints')]
                               station == resp'.evaluation.suggestion.station IN
                           /\ w.type = "suggested_stop"
                           /\ w.trip_id = ToInt(req'.id)
                           /\ station.id[1] = "ext_" => w.station_id = <<>>
           /\ ~stored => waypoints' = waypoints ]_vars

\* a request with a suggestion was answered 200 and left its waypoint, and
\* the next one, with a suggestion too, is answered 500 and leaves none
C19_Witness ==
    /\ req.handler = "updateTrip"
    /\ resp.status = 500
    /\ req.proc.evaluation.suggestion.type = "meal_stop"
    /\ req.proc.evaluation.suggestion.station.id = <<"ext_", "12">>
    /\ Len(waypoints) = 1
    /\ waypoints[1].station_id = <<>>
    /\ waypoints[1].type = "suggested_stop"
    /\ InFlight = {}

\* the request names no active trip of the requesting user
NoSuchTrip(r, tr) ==
    \/ ToInt(r.id) \notin 1..Len(tr)
    \/ tr[ToInt(r.id)].user_id # r.userId
    \/ tr[ToInt(r.id)].status # "active"

BodyComplete(r) ==
    r.body.current_location # <<>> /\ r.body.battery_current_pct # <<>>

\* C24 (as claimed): a trip update for a trip that does not exist, is not
\* owned by the requesting user or is not active is answered 404, changes
\* neither the trip's battery nor the waypoints and does not query the
\* provider.
C24_MissingTripIs404 ==
    [][ (req'.handler = "updateTrip" /\ NoSuchTrip(req', trips))
        => /\ resp'.status = 404
           /\ trips' = trips
           /\ waypoints' = waypoints
           /\ resp'.evaluation.providerCalls = <<>> ]_vars

\* C24 (amended): such a request is answered 404 when it carries both
\* current_location and battery_current_pct, and 400 when it lacks one; in
\* both cases trips and waypoints are unchanged and the provider is not
\* queried.
C24_MissingTripRejected ==
    [][ (req'.handler = "updateTrip" /\ NoSuchTrip(req', trips))
        => /\ resp'.status = IF BodyComplete(req') THEN 404 ELSE 400
           /\ trips' = trips
           /\ waypoints' = waypoints
           /\ ~resp'.evaluation.called
           /\ resp'.evaluation.providerCalls = <<>> ]_vars

C24_Witness ==
    /\ req.handler = "updateTrip"
    /\ req.id = "2"
    /\ Len(trips) = 2
    /\ trips[1].status = "completed"
    /\ trips[2].status = "active"
    /\ trips[2].user_id # req.userId
    /\ trips[2].battery_current_pct = 80
    /\ req.body.battery_current_pct = <<40>>
    /\ resp.status = 404
    /\ \E q \in InFlight : q.handler = "updateTrip" /\ q.id = "2" /\ q.pc = "selected"

\* the external stations a response carries
ExternalInResponse ==
    {resp.results[i] : i \in {k \in 1..Len(resp.results) : resp.results[k].is_external}}
        \cup (IF resp.evaluation.suggestion.type # "null"
              THEN {resp.evaluation.suggestion.station} ELSE {})

\* C20: every station returned by external discovery has an id starting with
\* 'ext_' and is_external = true, and no station-search or trip-update
\* request adds, removes or changes a row of the station table.
C20_ExternalMarkedStationsUntouched ==
    /\ [](\A s \in ExternalInResponse : s.id[1] = "ext_" /\ s.is_external)
    /\ [][stations' = stations]_vars

C20_Witness ==
    /\ req.handler = "stationSearch"
    /\ resp.status = 200
    /\ \E s \in ExternalInResponse : s.name = "Zulu"
    /\ Len(waypoints) >= 1
    /\ DOMAIN stations = StationIds

-----------------------------------------------------------------------------
\* The booking API with a create-booking request that fails between its
\* INSERT and its UPDATE: the UPDATE is rejected by the store (the catch
\* answers 500) or the process dies (no answer).  Status 0 is no answer.

\* a failure that takes the inserted booking back
UpdateStepRolledBack(p, st, bk, crash) ==
    [proc |-> [p EXCEPT !.pc = "failed", !.status = IF crash THEN 0 ELSE 500,
                        !.error = IF crash THEN "" ELSE "Internal server error"],
     stations |-> st,
     bookings |-> [bk EXCEPT ![p.bookingId].status = "deleted"]]

\* The query of line 431 does not complete: the booking row of line 423 is
\* committed (no transaction), the station row is not written, and the
\* catch of line 447 writes nothing
UpdateStepFails(p, st, bk, crash) ==
    [proc |-> [p EXCEPT !.pc = "failed", !.status = IF crash THEN 0 ELSE 500,
                        !.error = IF crash THEN "" ELSE "Internal server error"],
     stations |-> st,
     bookings |-> bk]

\* POST /bookings: its UPDATE fails.  When the process dies, the other
\* requests in flight die with it.
CreateBookingUpdateFails ==
    \E q \in {k \in InFlight : k.handler = "createBooking" /\ k.pc = "inserted"}, crash \in BOOLEAN :
        \E r \in {UpdateStepFails(q, stations, bookings, crash)} :
        /\ req' = StepOf("POST", <<"bookings">>, q.body, r.proc)
        /\ resp' = [status |-> r.proc.status, error |-> r.proc.error, station |-> NoStation]
        /\ procs' = IF crash THEN <<>> ELSE Without(procs, q)
        /\ stations' = r.stations
        /\ bookings' = r.bookings
        /\ UNCHANGED bookingFrame

NextFail ==
    \/ CreateBookingContends
    \/ CancelBookingArrives(TRUE)
    \/ BookingSteps
    \/ CreateBookingUpdateFails

SpecFail == Init /\ [][NextFail]_vars

-----------------------------------------------------------------------------
\* Claims on interrupted bookings (specification SpecFail)

Interrupted(r) == r.handler = "createBooking" /\ r.proc.pc = "failed"

-----------------------------------------------------------------------------
\* Listing one's bookings (specification SpecList)

JoinedRow(i, st, bk) ==
    [id |-> i, user_id |-> bk[i].user_id, station_id |-> bk[i].station_id,
     status |-> bk[i].status, station_name |-> st[bk[i].station_id].name]

RECURSIVE NewestFirst(_, _, _)
\* ORDER BY b.created_at DESC over the rows picked: created_at is the time of
\* the INSERT, so the newest row is the one with the largest id
NewestFirst(picked, st, bk) ==
    IF picked = {} THEN <<>>
    ELSE LET i == CHOOSE x \in picked : \A y \in picked : y <= x
         IN <<JoinedRow(i, st, bk)>> \o NewestFirst(picked \ {i}, st, bk)

\* a listing whose query has no WHERE b.user_id = $1
ListBookingsOfAll(userId, st, bk) ==
    NewestFirst({i \in 1..Len(bk) : bk[i].status # "deleted"
                                     /\ bk[i].station_id \in DOMAIN st}, st, bk)

\* GET /bookings (after authenticateToken set req.userId), one query: the
\* rows of bookings JOIN charging_stations with b.user_id = req.userId
ListBookingsHandler(userId, st, bk) ==
    NewestFirst({i \in 1..Len(bk) : /\ bk[i].user_id = userId
                                     /\ bk[i].status # "deleted"
                                     /\ bk[i].station_id \in DOMAIN st}, st, bk)

ListBookings ==
    \E u \in Users :
        \E rows \in {ListBookingsHandler(u, stations, bookings)} :
        /\ Dispatch("GET", <<"bookings">>) = "listBookings"
        /\ req' = [method |-> "GET", path |-> <<"bookings">>, handler |-> "listBookings",
                   userId |-> u, body |-> NoReq.body]
        /\ resp' = [status |-> 200, error |-> "", station |-> NoStation, rows |-> rows]
        /\ UNCHANGED <<stations, bookings, evalIn, evalOut, searchIn, searchOut, laterVars>>

NextList ==
    \/ CreateBookingContends
    \/ CancelBookingArrives(TRUE)
    \/ BookingSteps
    \/ ListBookings

SpecList == Init /\ [][NextList]_vars

\* C25: GET /bookings answers with exactly the bookings whose user_id is the
\* requesting user's id, each once and with its stored status, and with no
\* booking of another user, whatever bookings were created and cancelled.
C25_ListIsOwnBookings ==
    req.handler = "listBookings"
    => /\ resp.status = 200
       /\ {resp.rows[k].id : k \in 1..Len(resp.rows)}
            = {i \in 1..Len(bookings) : bookings[i].user_id = req.userId}
       /\ Len(resp.rows) = Cardinality({i \in 1..Len(bookings) :
                                           bookings[i].user_id = req.userId})
       /\ \A k \in 1..Len(resp.rows) :
            /\ resp.rows[k].user_id = req.userId
            /\ resp.rows[k].status = bookings[resp.rows[k].id].status
            /\ resp.rows[k].station_id = bookings[resp.rows[k].id].station_id

C25_Witness ==
    /\ req.handler = "listBookings"
    /\ req.userId = 1
    /\ Len(bookings) = 2
    /\ Len(resp.rows) = 1
    /\ resp.rows[1].id = 1
    /\ resp.rows[1].status = "cancelled"
    /\ bookings[2].user_id = 2
    /\ bookings[2].status = "active"
    /\ bookings[2].station_id = bookings[1].station_id
    /\ \E q \in InFlight : q.handler = "cancelBooking" /\ q.pc = "marked" /\ q.id = 1

-----------------------------------------------------------------------------
\* Bookings next to the admin's station updates (specification SpecAdmin)

\* statuses the admin sends
AdminStatuses == {"maintenance", "inactive"}

\* body of PUT /admin/stations/:id that resends the columns of the row and
\* sets a status
StatusBody(row, status) ==
    [name |-> <<row.name>>, address |-> <<"MG Road">>, latitude |-> <<row.latitude>>,
     longitude |-> <<row.longitude>>, status |-> <<status>>]

AdminUpdateStation ==
    \E sid \in StationIds, status \in AdminStatuses :
        LET path == <<"admin", "stations", ToText(sid)>>
            body == StatusBody(stations[sid], status) IN
        \E r \in {AdminUpdateStationHandler(ToText(sid), body, stations, bookings)} :
        /\ Dispatch("PUT", path) = "adminUpdateStation"
        /\ req' = [method |-> "PUT", path |-> path, handler |-> "adminUpdateStation",
                   userId |-> 0, body |-> body]
        /\ resp' = [status |-> r.status, error |-> r.error, station |-> r.station]
        /\ stations' = r.stations
        /\ bookings' = r.bookings
        /\ UNCHANGED <<evalIn, evalOut, searchIn, searchOut, laterVars>>

\* the booking requests sent one after another, between the admin's updates
NextAdmin ==
    \/ CreateBookingArrives(FALSE)
    \/ CancelBookingArrives(FALSE)
    \/ BookingSteps
    \/ AdminUpdateStation

SpecAdmin == Init /\ [][NextAdmin]_vars

\* C28 (as claimed): a create-booking or cancel-booking request never
\* changes the status of a station that is in maintenance or inactive (a
\* station with a booking on it gets there only by the admin's PUT).
C28_BookingsKeepAdminStatus ==
    [][ req'.handler \in {"createBooking", "cancelBooking"}
        => \A sid \in StationIds :
              stations[sid].status \in {"maintenance", "inactive"}
                  => stations'[sid].status = stations[sid].status ]_vars

-----------------------------------------------------------------------------
\* Accounts and the admin flag (specification SpecProfile)

\* some other row of users has the email
EmailOfAnother(email, userId, us) ==
    \E i \in UserIds(us) : i # userId /\ us[i].email = email

\* one request of app.put('/users/profile'), after authenticateToken set
\* req.userId
ProfileArrived(userId, body) ==
    [status |-> 0, handler |-> "putProfile", error |-> "", userId |-> userId,
     body |-> body, pc |-> "arrived"]

\* Lines 544-572: the truthy ones of name, email and phone are written to
\* the user's row by one UPDATE; the UNIQUE constraint on email turns a
\* taken email into 500
ProfileUpdateStep(p, us) ==
    IF p.body.name = "" /\ p.body.email = "" /\ p.body.phone = <<>>
    THEN [proc |-> Refused(p, 400, "No fields to update"), users |-> us]
    ELSE IF p.body.email # "" /\ EmailOfAnother(p.body.email, p.userId, us)
    THEN [proc |-> Refused(p, 500, "Internal server error"), users |-> us]
    ELSE [proc |-> [p EXCEPT !.pc = "updated"],
          users |-> [us EXCEPT ![p.userId] =
                       [@ EXCEPT !.name = IF p.body.name = "" THEN @ ELSE p.body.name,
                                 !.email = IF p.body.email = "" THEN @ ELSE p.body.email,
                                 !.phone = IF p.body.phone = <<>> THEN @ ELSE p.body.phone]]]

\* the columns SELECT id, name, email, phone FROM users WHERE id = $1 reads
NoRow == [id |-> 0, name |-> "", email |-> "", phone |-> <<>>]
ProfileRow(userId, us) ==
    [id |-> userId, name |-> us[userId].name, email |-> us[userId].email,
     phone |-> us[userId].phone]

\* Lines 575-580: the SELECT, whose row is the answer; when the query fails
\* the catch answers 500 and the UPDATE stays
ProfileSelectStep(p, us, fails) ==
    IF fails
    THEN [proc |-> Refused(p, 500, "Internal server error"), row |-> NoRow]
    ELSE [proc |-> [p EXCEPT !.pc = "done", !.status = 200],
          row |-> ProfileRow(p.userId, us)]

\* the answer of a profile request, none while it is in flight
ProfileAnswerOf(p, row) ==
    [status |-> p.status, error |-> p.error,
     userId |-> IF p.status = 200 THEN p.userId ELSE 0, token |-> NoToken, row |-> row]

\* an account that registered and was then made administrator by the
\* migration script (UPDATE users SET is_admin = TRUE WHERE email = $1)
AdminAccount ==
    [name |-> "Ann", email |-> "b@x", password |-> Hash("pw2"),
     phone |-> <<"1", "2", "3", "4", "5", "6", "7", "8", "9", "0">>, is_admin |-> TRUE]

\* bodies of PUT /users/profile: no field, one field, all fields
ProfileBodies ==
    { [name |-> "",    email |-> "",    phone |-> <<>>],
      [name |-> "Bob", email |-> "",    phone |-> <<>>],
      [name |-> "",    email |-> "a@x", phone |-> <<>>],
      [name |-> "",    email |-> "b@x", phone |-> <<>>],
      [name |-> "",    email |-> "",    phone |-> <<"0", "0", "7">>],
      [name |-> "Bob", email |-> "a@x", phone |-> <<"0", "0", "7">>] }

InitProfile ==
    /\ stations = [id \in StationIds |-> StationPool[id]]
    /\ bookings = <<>>
    /\ req = NoReq
    /\ resp = NoResp
    /\ evalIn = EvalIdle
    /\ evalOut = EvalOutIdle
    /\ searchIn = SearchIdle
    /\ searchOut = SearchIdle
    /\ discIn = DiscIdle
    /\ discOut = DiscIdle
    /\ users \in {<<>>, <<AdminAccount>>}
    /\ procs = <<>>
    /\ trips = <<>>
    /\ waypoints = <<>>

\* PUT /users/profile up to the answer of its UPDATE
PutProfileArrives ==
    \E u \in UserIds(users), body \in ProfileBodies :
        \E r \in {ProfileUpdateStep(ProfileArrived(u, body), users)} :
        /\ Dispatch("PUT", <<"users", "profile">>) = "putProfile"
        /\ MayArrive(TRUE)
        /\ req' = StepOf("PUT", <<"users", "profile">>, body, r.proc)
        /\ resp' = ProfileAnswerOf(r.proc, NoRow)
        /\ procs' = Launched(procs, r.proc)
        /\ users' = r.users
        /\ UNCHANGED authFrame

\* PUT /users/profile: the SELECT and the answer
PutProfileSelects ==
    \E q \in {k \in InFlight : k.handler = "putProfile" /\ k.pc = "updated"},
       fails \in BOOLEAN :
        \E r \in {ProfileSelectStep(q, users, fails)} :
        /\ req' = StepOf("PUT", <<"users", "profile">>, q.body, r.proc)
        /\ resp' = ProfileAnswerOf(r.proc, r.row)
        /\ procs' = Stepped(procs, q, r.proc)
        /\ UNCHANGED <<users, authFrame>>

PutProfile == PutProfileArrives \/ PutProfileSelects

\* bodies of the account requests: the passwords of the two accounts for
\* the logins, a text and a numeric password for the registrations, a phone
\* with ten digits and one with five
AccountPasswords == {"pw1", "pw2"}
AccountPhones == {<<"1", "2", "3", "4", "5">>,
                  <<"1", "2", "3", "4", "5", "6", "7", "8", "9", "0">>}

RegisterAccount ==
    RegisterArrives([name : {"Ann"}, email : Emails, password : {"pw1", "#7"},
                     phone : AccountPhones])

LoginAccount == LoginArrives([email : Emails, password : AccountPasswords])

NextProfile ==
    RegisterAccount \/ RegisterSteps \/ LoginAccount \/ LoginCompares \/ PutProfile

SpecProfile == InitProfile /\ [][NextProfile]_vars

\* C29: no request changes the is_admin of an existing user; a registration
\* inserts a row with is_admin FALSE and answers with a token whose isAdmin
\* is FALSE; a token carries isAdmin only for an account that was an
\* administrator before the request, hence made one outside the API.
C29_AdminFlagOnlyFromOutside ==
    [][ /\ Len(users') >= Len(users)
        /\ \A i \in 1..Len(users) : users'[i].is_admin = users[i].is_admin
        /\ \A i \in (1..Len(users')) \ (1..Len(users)) : ~users'[i].is_admin
        /\ (req'.handler = "register" /\ resp'.status = 201)
              => /\ Len(users') = Len(users) + 1
                 /\ resp'.token = Sign(Len(users'), req'.body.email, FALSE)
        /\ resp'.token.isAdmin
              => /\ resp'.token.userId \in 1..Len(users)
                 /\ users[resp'.token.userId].is_admin ]_vars

C29_Witness ==
    /\ req.handler = "login"
    /\ resp.status = 200
    /\ resp.token.isAdmin
    /\ resp.token.userId = 1
    /\ Len(users) = 2
    /\ users[2].name = "Bob"
    /\ users[2].email = "a@x"
    /\ ~users[2].is_admin
    /\ users[1].name = "Bob"

-----------------------------------------------------------------------------
\* The evaluator on top of the shipped discovery (specification SpecCompose)

InitCompose ==
    /\ stations = [id \in StationIds |-> StationPool[id]]
    /\ bookings = <<>>
    /\ req = NoReq
    /\ resp = NoResp
    /\ evalIn \in [called : {FALSE}, hour : Hours, battery : Batteries,
                    apiKey : BOOLEAN, provider : DiscoveryProviders]
    /\ evalOut = EvalOutIdle
    /\ searchIn = SearchIdle
    /\ searchOut = SearchIdle
    /\ LaterIdle

\* evaluateSmartSuggestions(trip, currentLocation, currentBattery) with
\* searchExternalStations of utils/serper.js behind it; `discovered` is the
\* list that function answers with for the environment of the call
EvaluateComposed ==
    /\ ~evalIn.called
    /\ evalIn' = [evalIn EXCEPT !.called = TRUE]
    /\ \E list \in {SearchExternalStations(evalIn.apiKey, evalIn.provider)} :
       \E r \in {EvaluateSmartSuggestions(evalIn.hour, evalIn.battery, list)} :
          evalOut' = [suggestion |-> r.suggestion, providerCalls |-> r.providerCalls,
                      discovered |-> list]
    /\ UNCHANGED <<stations, bookings, req, resp, searchIn, searchOut, laterVars>>

NextCompose == EvaluateComposed

SpecCompose == InitCompose /\ [][NextCompose]_vars

\* C30: with the shipped discovery, every station of which has 50 kW, the
\* evaluator answers with a suggestion exactly when the hour is in a meal
\* window, the battery is below 60 and the discovery list is not empty, and
\* the suggested station is the first of that list, the provider's first
\* place.
C30_SuggestionIffDiscoveryNonEmpty ==
    evalIn.called
    => /\ \A k \in 1..Len(evalOut.discovered) : evalOut.discovered[k].power_output_kw = 50
       /\ (evalOut.suggestion # NullSuggestion)
            <=> (/\ evalIn.hour \in MealHours
                 /\ evalIn.battery < 60
                 /\ evalOut.discovered # <<>>)
       /\ evalOut.suggestion # NullSuggestion
            => /\ evalOut.suggestion.station = evalOut.discovered[1]
               /\ evalIn.provider.places # <<>>
               /\ evalOut.suggestion.station.latitude = evalIn.provider.places[1].latitude
               /\ evalOut.suggestion.station.longitude = evalIn.provider.places[1].longitude
               /\ evalOut.suggestion.station.id
                    = <<"ext_", PlaceKey(evalIn.provider.places[1])>>

C30_Witness ==
    /\ evalIn.called
    /\ evalIn.hour = 19
    /\ evalIn.battery = 59
    /\ Len(evalIn.provider.places) = 2
    /\ evalIn.provider.places[1].cid = ""
    /\ evalIn.provider.places[2].cid = "12"
    /\ Len(evalOut.discovered) = 2
    /\ evalOut.suggestion # NullSuggestion
    /\ evalOut.suggestion.station.name = "Nomad"

-----------------------------------------------------------------------------
\* Claims on the booking API (specifications Spec and SpecSerial)

\* C1 (as claimed): a GET /stations/search request is dispatched to the
\* station-search handler, not to the by-id handler, and answered 200.
C1_SearchReachesSearchHandler ==
    (req.method = "GET" /\ req.path = <<"stations", "search">>)
        => (req.handler = "stationSearch" /\ resp.status = 200)

\* C2 (as claimed): between requests, every active booking has its station
\* in status occupied.
C2_ActiveImpliesOccupied ==
    InFlight = {}
    => \A i \in 1..Len(bookings) :
          bookings[i].status = "active"
              => stations[bookings[i].station_id].status = "occupied"

\* C26 (as claimed): a cancel request on a booking that is already cancelled
\* leaves every station's status unchanged.
C26_CancelAgainKeepsStations ==
    [][ (/\ req'.handler = "cancelBooking"
         /\ req'.proc.booking.status = "cancelled")
        => stations' = stations ]_vars

\* C27 (as claimed): with requests served one after another, each station
\* has at most one booking in status active.
C27_OneActiveBookingPerStation ==
    \A sid \in StationIds :
        Cardinality({i \in 1..Len(bookings) :
                        bookings[i].station_id = sid /\ bookings[i].status = "active"}) <= 1

\* C3: a create-booking answered 201, whose SELECT saw the station
\* available, makes GET /stations/:id show occupied; a cancel by the owner
\* answered 200 makes it show available and leaves the booking cancelled.
C3_RoundTrip ==
    [][ /\ (req'.handler = "createBooking" /\ resp'.status = 201)
            => LET shown == StationByIdHandler(ToText(req'.body.station_id),
                                               stations', bookings') IN
               /\ shown.status = 200
               /\ shown.station.id = req'.body.station_id
               /\ shown.station.status = "occupied"
               /\ req'.proc.seen = "available"
        /\ (req'.handler = "cancelBooking" /\ resp'.status = 200)
            => LET id == ToInt(req'.path[2]) IN
               /\ LET shown == StationByIdHandler(ToText(bookings[id].station_id),
                                                  stations', bookings') IN
                  /\ shown.status = 200
                  /\ shown.station.id = bookings[id].station_id
                  /\ shown.station.status = "available"
               /\ bookings'[id].status = "cancelled"
               /\ bookings[id].user_id = req'.userId ]_vars

C3_Witness ==
    /\ req.handler = "cancelBooking"
    /\ resp.status = 200
    /\ req.proc.booking.status = "active"
    /\ bookings[ToInt(req.path[2])].status = "cancelled"
    /\ bookings[ToInt(req.path[2])].user_id = req.userId
    /\ stations[bookings[ToInt(req.path[2])].station_id].status = "available"

\* C4: a cancel request for a booking id that has no row, or whose row
\* belongs to another user, is answered 404 and changes no booking and no
\* station.
C4_CancelNotOwned ==
    [][ (/\ req'.handler = "cancelBooking"
         /\ req'.proc.pc \in {"done", "found"}
         /\ LET id == ToInt(req'.path[2]) IN
            \/ id \notin 1..Len(bookings)
            \/ bookings[id].user_id # req'.userId)
        => (resp'.status = 404 /\ bookings' = bookings /\ stations' = stations
            /\ procs' = procs) ]_vars

C4_Witness ==
    /\ req.handler = "cancelBooking"
    /\ resp.status = 404
    /\ ToInt(req.path[2]) \in 1..Len(bookings)
    /\ bookings[ToInt(req.path[2])].user_id # req.userId
    /\ bookings[ToInt(req.path[2])].status = "active"
    /\ stations[bookings[ToInt(req.path[2])].station_id].status = "occupied"

\* what a create-booking request does from its SELECT on: unless refused it
\* inserts an active booking, then occupies the station and is answered 201
CreateProceeds ==
    LET p == req'.proc
        sid == req'.body.station_id IN
    /\ p.pc = "selected" => (resp'.status = 0 /\ bookings' = bookings /\ stations' = stations)
    /\ p.pc = "inserted"
         => /\ resp'.status = 0
            /\ bookings' = Append(bookings, [user_id |-> req'.userId, station_id |-> sid,
                                             status |-> "active"])
            /\ p.bookingId = Len(bookings')
            /\ stations' = stations
    /\ (p.pc = "done" /\ p.bookingId # 0)
         => /\ resp'.status = 201
            /\ p.seen = "available"
            /\ bookings' = bookings
            /\ stations' = [stations EXCEPT ![sid].status = "occupied"]
    /\ resp'.status = 201 => (p.pc = "done" /\ p.bookingId # 0)

\* the step is the SELECT of a create-booking request
AtSelect(r) == r.handler = "createBooking" /\ r.proc.bookingId = 0

\* C5 (as claimed): create-booking answers 201 only for an existing,
\* available station (inserting an active booking and occupying the station),
\* 404 when the named station does not exist, 400 when it is not available,
\* and changes nothing when it fails.
C5_CreateOutcomes ==
    [][ req'.handler = "createBooking"
        => LET sid == req'.body.station_id IN
           /\ CreateProceeds
           /\ AtSelect(req')
                => /\ (~Falsy(sid) /\ sid \notin DOMAIN stations) => resp'.status = 404
                   /\ (sid \in DOMAIN stations /\ stations[sid].status # "available")
                        => resp'.status = 400
                   /\ resp'.status # 0 => (bookings' = bookings /\ stations' = stations) ]_vars

\* C5 (amended): a create-booking request that carries a station_id and a
\* start_time answers 201 only for an existing station whose status it read
\* as available (inserting an active booking and occupying the station), 404
\* when the named station does not exist, 400 when it is not available, and
\* changes nothing in these two failure cases.
C5_CreateOutcomesWellFormed ==
    [][ req'.handler = "createBooking"
        => LET sid == req'.body.station_id
               wellFormed == ~Falsy(sid) /\ ~Falsy(req'.body.start_time) IN
           /\ CreateProceeds
           /\ resp'.status = 201 => (wellFormed /\ sid \in DOMAIN stations)
           /\ (AtSelect(req') /\ wellFormed)
                => /\ sid \notin DOMAIN stations
                        => (resp'.status = 404 /\ bookings' = bookings /\ stations' = stations)
                   /\ (sid \in DOMAIN stations /\ stations[sid].status # "available")
                        => (resp'.status = 400 /\ bookings' = bookings /\ stations' = stations) ]_vars

C5_Witness ==
    /\ req.handler = "createBooking"
    /\ ~Falsy(req.body.start_time)
    /\ req.body.station_id \in DOMAIN stations
    /\ stations[req.body.station_id].status = "occupied"
    /\ resp.status = 400
    /\ resp.error = "Station is not available"

\* the step is the UPDATE of a create-booking request
AtUpdate(r) == r.handler = "createBooking" /\ r.proc.pc = "done" /\ r.proc.bookingId # 0

\* the active bookings of station sid
ActiveOn(sid, bk) ==
    {i \in 1..Len(bk) : bk[i].station_id = sid /\ bk[i].status = "active"}

\* C18: when the availability checks of two create-booking requests for one
\* station both happen before either status update, both requests succeed:
\* the request whose update comes second, the other's booking being active
\* and the station occupied by then, is answered 201 like the first, and
\* two active bookings then exist for the station.
C18_BothBookingsSucceed ==
    [][ (/\ AtUpdate(req')
         /\ req'.proc.seen = "available"
         /\ ActiveOn(req'.body.station_id, bookings) \ {req'.proc.bookingId} # {})
        => /\ resp'.status = 201
           /\ bookings' = bookings
           /\ stations'[req'.body.station_id].status = "occupied"
           /\ bookings[req'.proc.bookingId].status = "active"
                => Cardinality(ActiveOn(req'.body.station_id, bookings')) >= 2 ]_vars

C18_Witness ==
    /\ AtUpdate(req)
    /\ resp.status = 201
    /\ Len(bookings) = 2
    /\ bookings[1].user_id # bookings[2].user_id
    /\ ActiveOn(req.body.station_id, bookings) = {1, 2}
    /\ stations[req.body.station_id].status = "occupied"
    /\ InFlight = {}

====
